---------------------------- MODULE Spec2Model ----------------------------
(***************************************************************************)
(* hcasm: a Z80 assembler (src/src/hcasm.ts, lines 1-1190).                *)
(*                                                                         *)
(* The pipeline HCAsm.AsmRaw = Tokenizer.Tokenize ; Parser.Parse ;         *)
(* Assembler.Assemble ; Bundler.BundleRaw is modelled as a state machine:  *)
(* one step per call of Tokenizer.next_token, one per iteration of the     *)
(* Parser loop, one per iteration of the Assembler loop, one for the       *)
(* bundler.  A source text is a sequence of one-character strings.         *)
(***************************************************************************)
EXTENDS Integers, Sequences, FiniteSets, TLC

VARIABLES
    src,              \* Tokenizer.src: the source text, a sequence of characters
    pos,              \* Tokenizer.pos (0-based index into src)
    line,             \* Tokenizer.line
    tokens,           \* the token array built by Tokenize / read by Parse
    tokenIndex,       \* Parser.tokenIndex
    items,            \* Parser.items
    perrors,          \* Parser.errors
    syntaxItemIndex,  \* Assembler.syntaxItemIndex
    addr,             \* Assembler.addr
    cpu,              \* Assembler.cpu
    outp,             \* the local ByteRange `outp` of Assembler.Assemble
    byteRanges,       \* Assembler.byteRanges
    aerrors,          \* Assembler.errors
    pc,               \* position of HCAsm.AsmRaw
    result,           \* what HCAsm.AsmRaw handed to its caller
    calls             \* the calls of Tokenize and Assemble that have returned to
                      \* a caller who keeps the objects: argument and return value

vars == <<src, pos, line, tokens, tokenIndex, items, perrors, syntaxItemIndex,
          addr, cpu, outp, byteRanges, aerrors, pc, result, calls>>

-----------------------------------------------------------------------------
(* Characters *)

DecDigits == <<"0","1","2","3","4","5","6","7","8","9">>
HexDigitsUpper == DecDigits \o <<"A","B","C","D","E","F">>
LowerLetters == <<"a","b","c","d","e","f","g","h","i","j","k","l","m",
                  "n","o","p","q","r","s","t","u","v","w","x","y","z">>
UpperLetters == <<"A","B","C","D","E","F","G","H","I","J","K","L","M",
                  "N","O","P","Q","R","S","T","U","V","W","X","Y","Z">>

Range(s) == { s[i] : i \in DOMAIN s }

\* the value of src[pos] past the end of the string
Undefined == "undefined"
\* a null string field (renders as "null" in a template string; names and
\* string literals are upper-cased, so no token text equals it)
Null == "null"
\* parseInt's result on a string with no leading digit
NaN == -1

\* String.prototype.toUpperCase on one character
toUpperCase(c) ==
    IF c \in Range(LowerLetters)
    THEN UpperLetters[CHOOSE i \in DOMAIN LowerLetters : LowerLetters[i] = c]
    ELSE c

isDecDigit(c) == c \in Range(DecDigits)

isHexDigit(c) ==
    isDecDigit(c) \/ c \in {"A","B","C","D","E","F"} \/ c \in {"a","b","c","d","e","f"}

isBinDigit(c) == (c = "0") \/ (c = "1")

isAlnum(c) ==
    c \in Range(DecDigits) \/ c \in Range(UpperLetters) \/ c \in Range(LowerLetters) \/ (c = "_")

isLineEnd(c) == (c = "\n") \/ (c = "\r") \/ (c = Undefined)

isWhiteSpace(c) == (c = " ") \/ (c = "\t") \/ (c = "\r")

\* src.slice(start, end) for 0 <= start, as a sequence of characters
slice(s, start, end) ==
    LET e == IF end > Len(s) THEN Len(s) ELSE end
    IN  IF start >= e THEN <<>> ELSE SubSeq(s, start + 1, e)

\* the characters of a slice, upper-cased and joined into one string
RECURSIVE UpperStr(_)
UpperStr(cs) ==
    IF cs = <<>> THEN "" ELSE toUpperCase(Head(cs)) \o UpperStr(Tail(cs))

DigitValue(c) ==
    LET u == toUpperCase(c)
    IN  IF u \in Range(HexDigitsUpper)
        THEN (CHOOSE i \in DOMAIN HexDigitsUpper : HexDigitsUpper[i] = u) - 1
        ELSE NaN

\* parseInt(str, radix): the value of the longest prefix of digits valid in
\* the radix, NaN when that prefix is empty
RECURSIVE parseIntFrom(_, _, _)
parseIntFrom(cs, radix, acc) ==
    IF cs = <<>> THEN acc
    ELSE LET d == DigitValue(Head(cs))
         IN  IF d = NaN \/ d >= radix THEN acc
             ELSE parseIntFrom(Tail(cs), radix, acc * radix + d)

parseInt(cs, radix) ==
    IF cs = <<>> \/ DigitValue(Head(cs)) = NaN \/ DigitValue(Head(cs)) >= radix
    THEN NaN
    ELSE parseIntFrom(cs, radix, 0)

-----------------------------------------------------------------------------
(* Tokens *)

NewToken == [kind |-> "Invalid", str |-> Null, num |-> 0, line |-> 0]

Token_Tag(kind, ln) == [NewToken EXCEPT !.kind = kind, !.line = ln]

Token_Name(kind, s, start, end, ln) ==
    [NewToken EXCEPT !.kind = kind, !.str = UpperStr(slice(s, start, end)), !.line = ln]

Token_String(s, start, end, ln) ==
    [NewToken EXCEPT !.kind = "String", !.str = UpperStr(slice(s, start, end)), !.line = ln]

\* Token.Decimal, Token.Hex and Token.Binary differ in radix and message only
Token_Number(s, start, end, ln, radix, msg) ==
    LET n == parseInt(slice(s, start, end), radix)
    IN  IF n = NaN
        THEN [kind |-> "Error", str |-> msg, num |-> NaN, line |-> ln]
        ELSE [kind |-> "Number", str |-> UpperStr(slice(s, start, end)), num |-> n, line |-> ln]

Token_Decimal(s, start, end, ln) ==
    Token_Number(s, start, end, ln, 10, "Decimal integer parsing error")

Token_Hex(s, start, end, ln) ==
    Token_Number(s, start, end, ln, 16, "Hexadecimal integer parsing error")

Token_Binary(s, start, end, ln) ==
    Token_Number(s, start, end, ln, 2, "Binary integer parsing error")

-----------------------------------------------------------------------------
(* Tokenizer *)

cur_char(s, p) == IF p < Len(s) THEN s[p + 1] ELSE Undefined

\* while (isXDigit(cur_char())) advance_take();  -- returns the final pos
RECURSIVE TakeHex(_, _)
TakeHex(s, p) == IF isHexDigit(cur_char(s, p)) THEN TakeHex(s, p + 1) ELSE p

RECURSIVE TakeBin(_, _)
TakeBin(s, p) == IF isBinDigit(cur_char(s, p)) THEN TakeBin(s, p + 1) ELSE p

RECURSIVE TakeDec(_, _)
TakeDec(s, p) == IF isDecDigit(cur_char(s, p)) THEN TakeDec(s, p + 1) ELSE p

RECURSIVE TakeAlnum(_, _)
TakeAlnum(s, p) == IF isAlnum(cur_char(s, p)) THEN TakeAlnum(s, p + 1) ELSE p

\* the body loop of a string literal; returns the pos of the closing quote
\* (or of the end of input)
RECURSIVE TakeString(_, _)
TakeString(s, p) ==
    IF cur_char(s, p) # Undefined /\ cur_char(s, p) # "\""
    THEN IF cur_char(s, p + 1) = "\\" THEN TakeString(s, p + 2) ELSE TakeString(s, p + 1)
    ELSE p

\* the comment loop: skip to the line end
RECURSIVE SkipComment(_, _)
SkipComment(s, p) == IF ~isLineEnd(cur_char(s, p)) THEN SkipComment(s, p + 1) ELSE p

TagKind(c) ==
    CASE c = "," -> "Comma"
      [] c = "+" -> "Plus"
      [] c = "-" -> "Minus"
      [] c = "#" -> "Pound"
      [] c = ":" -> "Colon"
      [] c = "(" -> "LeftBracket"
      [] c = ")" -> "RightBracket"

\* Tokenizer.next_token: the token found from position p on (has = FALSE
\* stands for the null returned at the end of input), with the new pos and line
RECURSIVE Tokenizer_next_token(_, _, _)
Tokenizer_next_token(s, p, ln) ==
    LET c == cur_char(s, p)
        Ret(t, np) == [has |-> TRUE, tok |-> t, pos |-> np, line |-> ln]
    IN  IF c = Undefined THEN [has |-> FALSE, tok |-> NewToken, pos |-> p, line |-> ln]
        ELSE IF c = "$" THEN Ret(Token_Hex(s, p + 1, TakeHex(s, p + 1), ln), TakeHex(s, p + 1))
        ELSE IF c = "%" THEN Ret(Token_Binary(s, p + 1, TakeBin(s, p + 1), ln), TakeBin(s, p + 1))
        ELSE IF isDecDigit(c) THEN Ret(Token_Decimal(s, p, TakeDec(s, p), ln), TakeDec(s, p))
        ELSE IF c = "\"" THEN
            Ret(Token_String(s, p + 1, TakeString(s, p + 1), ln), TakeString(s, p + 1) + 1)
        ELSE IF c \in {",", "+", "-", "#", ":", "(", ")"} THEN Ret(Token_Tag(TagKind(c), ln), p + 1)
        ELSE IF isAlnum(c) THEN Ret(Token_Name("Name", s, p, TakeAlnum(s, p), ln), TakeAlnum(s, p))
        ELSE IF c = "\n" THEN Tokenizer_next_token(s, p + 1, ln + 1)
        ELSE IF isWhiteSpace(c) THEN Tokenizer_next_token(s, p + 1, ln)
        ELSE IF c = ";" THEN Tokenizer_next_token(s, SkipComment(s, p + 1), ln)
        ELSE Ret(Token_Tag("Unknown", ln), p + 1)

-----------------------------------------------------------------------------
(* JavaScript's 32-bit integer operators, on the numbers a signed 32-bit     *)
(* integer holds (ToInt32 is the identity on them)                          *)

\* a & m for a mask m >= 0; a may be negative (two's complement)
RECURSIVE BitAnd(_, _)
BitAnd(a, m) ==
    IF m = 0 THEN 0
    ELSE (IF a % 2 = 1 /\ m % 2 = 1 THEN 1 ELSE 0) + 2 * BitAnd(a \div 2, m \div 2)

RECURSIVE OrNat(_, _)
OrNat(a, b) ==
    IF a = 0 THEN b
    ELSE IF b = 0 THEN a
    ELSE (IF a % 2 = 1 \/ b % 2 = 1 THEN 1 ELSE 0) + 2 * OrNat(a \div 2, b \div 2)

\* the value a bit-code lookup yields after fatal() has thrown: the throw
\* propagates through every operator applied to it
Fatal == -1

\* a | b for a, b >= 0
BitOr(a, b) == IF a = Fatal \/ b = Fatal THEN Fatal ELSE OrNat(a, b)
\* a << n
Shl(a, n) == IF a = Fatal THEN Fatal ELSE a * (2 ^ n)
\* a >> n (arithmetic shift)
Sar(a, n) == a \div (2 ^ n)

\* is_8bit with its upper limit off by one
is_8bit_UpTo256(val) == (val >= -128) /\ (val <= 256)

is_8bit(val) == (val >= -128) /\ (val <= 255)

is_16bit(val) == (val >= -32768) /\ (val <= 65536)

-----------------------------------------------------------------------------
(* Syntax items *)

\* KeywordNames with the entry of END left out of the map
KeywordNames_NoEND ==
    {"ORG", "Z80", "M6502", "INCLUDE", "INCBIN", "DB", "DW", "CONST", "MACRO", "ENDM"}

KeywordNames ==
    {"ORG", "Z80", "M6502", "INCLUDE", "INCBIN", "DB", "DW", "CONST", "MACRO", "ENDM", "END"}

Z80OpNames ==
    {"ADC", "ADD", "AND", "BIT", "CALL", "CCF", "CP", "CPD", "CPDR", "CPI", "CPIR", "CPL",
     "DAA", "DEC", "DI", "DJNZ", "EI", "EX", "EXX", "HALT", "IM", "INC", "IND", "INDR",
     "INI", "INIR", "JP", "JR", "LD", "LDD", "LDDR", "LDI", "LDIR", "NEG", "NOP", "OR",
     "OTDR", "OTIR", "OUT", "OUTD", "OUTI", "POP", "PUSH", "RES", "RET", "RETI", "RETN",
     "RL", "RLA", "RLC", "RLD", "RR", "RRA", "RRC", "RRCA", "RRD", "RST", "SBC", "SCF",
     "SET", "SLA", "SRA", "SRL", "SUB", "XOR"}

Z80R8Names == {"B", "C", "D", "E", "H", "L", "A"}

Z80R16Names == {"BC", "DE", "HL", "AF", "IX", "IY", "SP", "AF'"}

\* `str in SyntaxNameMap`
InSyntaxNameMap(str) ==
    str \in KeywordNames \cup Z80OpNames \cup Z80R8Names \cup {"I", "R"} \cup Z80R16Names

\* SyntaxNameMap[str]
SyntaxNameMap(str) ==
    CASE str \in KeywordNames -> "Keyword"
      [] str \in Z80OpNames   -> "Z80Op"
      [] str \in Z80R8Names   -> "Z80R8"
      [] str = "I"            -> "Z80RI"
      [] str = "R"            -> "Z80RR"
      [] str \in Z80R16Names  -> "Z80R16"

NewSyntaxItem ==
    [kind |-> "Invalid", str |-> Null, num |-> 0, lo |-> 0, hi |-> 0,
     is8bit |-> FALSE, is16bit |-> FALSE, prefix |-> 0, line |-> 0, discard |-> FALSE]

\* the num, lo, hi and fitness fields of a Number or indirect-immediate item
WithNumber(item, kind, tok) ==
    [item EXCEPT !.kind = kind, !.str = tok.str, !.num = tok.num,
                 !.lo = BitAnd(tok.num, 255), !.hi = BitAnd(Sar(tok.num, 8), 255),
                 !.is8bit = is_8bit(tok.num), !.is16bit = is_16bit(tok.num)]

NewError(msg, ln) == [msg |-> msg, line |-> ln]

-----------------------------------------------------------------------------
(* Parser *)

Parser_peek_token(toks, idx) ==
    IF idx < Len(toks) THEN toks[idx + 1] ELSE [NewToken EXCEPT !.kind = "EOF"]

\* ParseIndexed with the sign of the displacement dropped
ParseIndexed_Unsigned(toks, idx, item, name) ==
    LET itp == [item EXCEPT !.prefix = IF name = "IX" THEN 221 ELSE 253]
        t2  == Parser_peek_token(toks, idx)
        t3  == Parser_peek_token(toks, idx + 1)
        n   == t3.num
        itk == [itp EXCEPT !.kind = "Z80IndIdx"]
        itn == [itk EXCEPT !.num = n, !.lo = BitAnd(n, 255), !.hi = 0,
                           !.is8bit = is_8bit(n), !.is16bit = is_16bit(n)]
    IN  IF t2.kind \in {"Plus", "Minus"}
        THEN IF t3.kind = "Number"
             THEN [item |-> itn, idx |-> idx + 2,
                   errs |-> IF ~itn.is8bit
                            THEN <<"d in (IX/IY+d) must be an 8-bit value">> ELSE <<>>]
             ELSE [item |-> itk, idx |-> idx + 2,
                   errs |-> <<"expected offset in (IX+d)/(IY+d)">>]
        ELSE [item |-> [itp EXCEPT !.kind = "Z80IndR16"], idx |-> idx + 1, errs |-> <<>>]

\* ParseIndexed without the range check of the displacement
ParseIndexed_NoRangeCheck(toks, idx, item, name) ==
    LET itp == [item EXCEPT !.prefix = IF name = "IX" THEN 221 ELSE 253]
        t2  == Parser_peek_token(toks, idx)
        t3  == Parser_peek_token(toks, idx + 1)
        neg == t2.kind = "Minus"
        n   == IF neg THEN 0 - t3.num ELSE t3.num
        itk == [itp EXCEPT !.kind = "Z80IndIdx"]
        itn == [itk EXCEPT !.num = n, !.lo = BitAnd(n, 255), !.hi = 0,
                           !.is8bit = is_8bit(n), !.is16bit = is_16bit(n)]
    IN  IF t2.kind \in {"Plus", "Minus"}
        THEN IF t3.kind = "Number"
             THEN [item |-> itn, idx |-> idx + 2, errs |-> <<>>]
             ELSE [item |-> itk, idx |-> idx + 2,
                   errs |-> <<"expected offset in (IX+d)/(IY+d)">>]
        ELSE [item |-> [itp EXCEPT !.kind = "Z80IndR16"], idx |-> idx + 1, errs |-> <<>>]

\* the (IX...) / (IY...) case of the indirection switch; idx is the index
\* behind the register name
ParseIndexed(toks, idx, item, name) ==
    LET itp == [item EXCEPT !.prefix = IF name = "IX" THEN 221 ELSE 253]
        t2  == Parser_peek_token(toks, idx)
        t3  == Parser_peek_token(toks, idx + 1)
        neg == t2.kind = "Minus"
        n   == IF neg THEN 0 - t3.num ELSE t3.num
        itk == [itp EXCEPT !.kind = "Z80IndIdx"]
        itn == [itk EXCEPT !.num = n, !.lo = BitAnd(n, 255), !.hi = 0,
                           !.is8bit = is_8bit(n), !.is16bit = is_16bit(n)]
    IN  IF t2.kind \in {"Plus", "Minus"}
        THEN IF t3.kind = "Number"
             THEN [item |-> itn, idx |-> idx + 2,
                   errs |-> IF ~itn.is8bit
                            THEN <<"d in (IX/IY+d) must be an 8-bit value">> ELSE <<>>]
             ELSE [item |-> itk, idx |-> idx + 2,
                   errs |-> <<"expected offset in (IX+d)/(IY+d)">>]
        ELSE [item |-> [itp EXCEPT !.kind = "Z80IndR16"], idx |-> idx + 1, errs |-> <<>>]

\* the LeftBracket branch; idx is the index behind the opening bracket
ParseIndirection(toks, idx, item) ==
    LET t1 == Parser_peek_token(toks, idx)
        imm == WithNumber(item, "Z80IndImm", t1)
        named == [item EXCEPT !.str = t1.str]
        inner ==
            IF t1.kind = "Number"
            THEN [item |-> imm, idx |-> idx + 1,
                  errs |-> IF ~imm.is16bit THEN <<"16-bit integer overflow!">> ELSE <<>>]
            ELSE IF t1.kind = "Name"
            THEN IF t1.str \in {"HL", "BC", "DE", "SP"}
                 THEN [item |-> [named EXCEPT !.kind = "Z80IndR16"], idx |-> idx + 1, errs |-> <<>>]
                 ELSE IF t1.str = "C"
                 THEN [item |-> [named EXCEPT !.kind = "Z80IndC"], idx |-> idx + 1, errs |-> <<>>]
                 ELSE IF t1.str \in {"IX", "IY"}
                 THEN ParseIndexed(toks, idx + 1, named, t1.str)
                 ELSE [item |-> named, idx |-> idx + 1,
                       errs |-> <<"expected indirection register">>]
            ELSE [item |-> item, idx |-> idx + 1, errs |-> <<>>]
        closing == Parser_peek_token(toks, inner.idx)
    IN  [item |-> inner.item, idx |-> inner.idx + 1,
         errs |-> inner.errs \o (IF closing.kind # "RightBracket"
                                 THEN <<"expected closing bracket">> ELSE <<>>)]

\* the Name branch; idx is the index behind the name
ParseName(toks, idx, item, token) ==
    IF Parser_peek_token(toks, idx).kind = "Colon"
    THEN [item |-> [item EXCEPT !.kind = "Label", !.str = token.str], idx |-> idx + 1, errs |-> <<>>]
    ELSE IF InSyntaxNameMap(token.str)
    THEN [item |-> [item EXCEPT !.kind = SyntaxNameMap(token.str), !.str = token.str,
                                !.prefix = IF token.str = "IX" THEN 221
                                           ELSE IF token.str = "IY" THEN 253 ELSE 0],
          idx |-> idx, errs |-> <<>>]
    ELSE [item |-> [item EXCEPT !.kind = "Name", !.str = token.str], idx |-> idx, errs |-> <<>>]

\* one iteration of the loop of Parser.Parse on a token other than EOF:
\* the item built, the error messages raised for it and the new tokenIndex
Parser_iteration(toks, idx0) ==
    LET token == Parser_peek_token(toks, idx0)
        idx   == idx0 + 1
        item  == [NewSyntaxItem EXCEPT !.line = token.line]
        r == IF token.kind = "Comma"
             THEN [item |-> [item EXCEPT !.kind = "Comma", !.str = ","], idx |-> idx, errs |-> <<>>]
             ELSE IF token.kind = "Number"
             THEN [item |-> WithNumber(item, "Number", token), idx |-> idx, errs |-> <<>>]
             ELSE IF token.kind = "String"
             THEN [item |-> [item EXCEPT !.kind = "String", !.str = token.str],
                   idx |-> idx, errs |-> <<>>]
             ELSE IF token.kind = "Name" THEN ParseName(toks, idx, item, token)
             ELSE IF token.kind = "LeftBracket" THEN ParseIndirection(toks, idx, item)
             ELSE IF token.kind = "Error"
             THEN [item |-> item, idx |-> idx, errs |-> <<token.str>>]
             ELSE [item |-> item, idx |-> idx,
                   errs |-> <<"unhandled token: " \o token.kind>>]
    IN  [item |-> [r.item EXCEPT !.discard = (r.errs # <<>>)], idx |-> r.idx,
         errs |-> [i \in DOMAIN r.errs |-> NewError(r.errs[i], item.line)]]

-----------------------------------------------------------------------------
(* Assembler: bit codes *)

\* z80R8bits with A given the code reserved for (HL)
z80R8bits_A6(r8) ==
    CASE r8 = "B" -> 0
      [] r8 = "C" -> 1
      [] r8 = "D" -> 2
      [] r8 = "E" -> 3
      [] r8 = "H" -> 4
      [] r8 = "L" -> 5
      [] r8 = "A" -> 6
      [] OTHER    -> Fatal

z80R8bits(r8) ==
    CASE r8 = "B" -> 0
      [] r8 = "C" -> 1
      [] r8 = "D" -> 2
      [] r8 = "E" -> 3
      [] r8 = "H" -> 4
      [] r8 = "L" -> 5
      [] r8 = "A" -> 7
      [] OTHER    -> Fatal

\* z80R16bits with SP given the code of HL
z80R16bits_SP2(r16) ==
    CASE r16 = "BC" -> 0
      [] r16 = "DE" -> 1
      [] r16 = "HL" -> 2
      [] r16 = "SP" -> 2
      [] OTHER      -> Fatal

z80R16bits(r16) ==
    CASE r16 = "BC" -> 0
      [] r16 = "DE" -> 1
      [] r16 = "HL" -> 2
      [] r16 = "SP" -> 3
      [] OTHER      -> Fatal

\* z80ALUbits with the codes of XOR and OR exchanged
z80ALUbits_XorOr(alu) ==
    CASE alu = "ADD" -> 0
      [] alu = "ADC" -> 1
      [] alu = "SUB" -> 2
      [] alu = "SBC" -> 3
      [] alu = "AND" -> 4
      [] alu = "XOR" -> 6
      [] alu = "OR"  -> 5
      [] alu = "CP"  -> 7
      [] OTHER       -> Fatal

z80ALUbits(alu) ==
    CASE alu = "ADD" -> 0
      [] alu = "ADC" -> 1
      [] alu = "SUB" -> 2
      [] alu = "SBC" -> 3
      [] alu = "AND" -> 4
      [] alu = "XOR" -> 5
      [] alu = "OR"  -> 6
      [] alu = "CP"  -> 7
      [] OTHER       -> Fatal

-----------------------------------------------------------------------------
(* Assembler: what one statement does to outp.  `set` tells whether          *)
(* outp.bytes was assigned, errs lists the messages passed to error() (each  *)
(* call sets outp.discard), fatal tells that fatal() threw.                  *)

Emit(bs) ==
    [bytes |-> bs, set |-> TRUE, errs |-> <<>>, fatal |-> \E i \in DOMAIN bs : bs[i] = Fatal]

Fail(msg) == [bytes |-> <<>>, set |-> FALSE, errs |-> <<msg>>, fatal |-> FALSE]

\* no assignment to outp.bytes and no call of error()
Untouched == [bytes |-> <<>>, set |-> FALSE, errs |-> <<>>, fatal |-> FALSE]

\* if (this.expect_8bit(outp, item)) { outp.bytes = bs; }
expect_8bit(item, bs) == IF item.is8bit THEN Emit(bs) ELSE Fail("8-bit overflow")

\* if (this.expect_iHL(outp, item)) { outp.bytes = bs; }
expect_iHL(item, bs) ==
    IF (item.kind = "Z80IndR16") /\ (item.str = "HL") THEN Emit(bs) ELSE Fail("expected (HL)")

Assembler_peek_item(its, idx) ==
    IF idx < Len(its) THEN its[idx + 1] ELSE [NewSyntaxItem EXCEPT !.kind = "EOF"]

\* the table of operand-less instructions in asmZ80Op
SimpleOpBytes(op) ==
    CASE op = "NOP"  -> <<0>>
      [] op = "EXX"  -> <<217>>
      [] op = "LDI"  -> <<237, 160>>
      [] op = "LDIR" -> <<237, 176>>
      [] op = "LDD"  -> <<237, 168>>
      [] op = "LDDR" -> <<237, 184>>
      [] op = "CPI"  -> <<237, 161>>
      [] op = "CPIR" -> <<237, 177>>
      [] op = "CPD"  -> <<237, 169>>
      [] op = "CPDR" -> <<237, 185>>
      [] op = "DAA"  -> <<39>>
      [] op = "CPL"  -> <<47>>
      [] op = "NEG"  -> <<237, 68>>
      [] op = "CCF"  -> <<63>>
      [] op = "SCF"  -> <<55>>
      [] op = "HALT" -> <<118>>
      [] op = "DI"   -> <<243>>
      [] op = "EI"   -> <<251>>
      [] op = "RLCA" -> <<7>>
      [] op = "RLA"  -> <<23>>
      [] op = "RRCA" -> <<15>>
      [] op = "RRA"  -> <<31>>
      [] op = "RLD"  -> <<237, 111>>
      [] op = "RRD"  -> <<237, 103>>
      [] op = "RET"  -> <<201>>
      [] op = "RETI" -> <<237, 77>>
      [] op = "RETN" -> <<237, 69>>
      [] op = "INI"  -> <<237, 162>>
      [] op = "INIR" -> <<237, 178>>
      [] op = "IND"  -> <<237, 170>>
      [] op = "INDR" -> <<237, 186>>
      [] op = "OUTI" -> <<237, 163>>
      [] op = "OTIR" -> <<237, 179>>
      [] op = "OUTD" -> <<237, 171>>
      [] op = "OTDR" -> <<237, 187>>
      [] OTHER       -> <<>>

ALUNames == {"ADD", "ADC", "SUB", "SBC", "AND", "XOR", "OR", "CP"}

asmZ80ALU(alu, l) ==
    IF l.kind = "Z80R16" THEN Fail("FIXME: 16-bit ALU operation")
    ELSE LET alubits == z80ALUbits(alu)
         IN  IF alubits = Fatal THEN [Untouched EXCEPT !.fatal = TRUE]
             ELSE
             CASE l.kind = "Number" ->
                    expect_8bit(l, <<BitOr(198, Shl(alubits, 3)), l.lo>>)
               [] l.kind = "Z80R8" ->
                    Emit(<<BitOr(BitOr(128, Shl(alubits, 3)), z80R8bits(l.str))>>)
               [] l.kind = "Z80IndR16" ->
                    expect_iHL(l, <<BitOr(134, Shl(alubits, 3))>>)
               [] l.kind = "Z80IndIdx" ->
                    Emit(<<l.prefix, BitOr(134, Shl(alubits, 3)), l.lo>>)
               [] OTHER ->
                    Fail("invalid 8-bit ALU operand: " \o l.str)

\* LD r,...   (case Z80R8 of the switch on l.kind)
LD_Z80R8(l, r) ==
    CASE r.kind = "Number" ->
            expect_8bit(r, <<BitOr(6, Shl(z80R8bits(l.str), 3)), r.lo>>)
      [] r.kind = "Z80R8" ->
            Emit(<<BitOr(BitOr(64, Shl(z80R8bits(l.str), 3)), z80R8bits(r.str))>>)
      [] r.kind = "Z80RI" ->
            IF l.str = "A" THEN Emit(<<237, 87>>) ELSE Fail("I can only be loaded into A")
      [] r.kind = "Z80RR" ->
            IF l.str = "A" THEN Emit(<<237, 95>>) ELSE Fail("R can only be loaded into A")
      [] r.kind = "Z80IndR16" ->
            IF r.str = "HL" THEN Emit(<<BitOr(70, Shl(z80R8bits(l.str), 3))>>)
            ELSE IF r.str = "BC"
            THEN IF l.str = "A" THEN Emit(<<10>>) ELSE Fail("(BC) can only be loaded into A")
            ELSE IF r.str = "DE"
            THEN IF l.str = "A" THEN Emit(<<26>>) ELSE Fail("(DE) can only be loaded into A")
            ELSE Fail("Invalid indirect load: LD " \o l.str \o ",(" \o r.str \o ")")
      [] r.kind = "Z80IndIdx" ->
            Emit(<<r.prefix, BitOr(70, Shl(z80R8bits(l.str), 3)), r.lo>>)
      [] r.kind = "Z80IndImm" ->
            IF l.str = "A" THEN Emit(<<58, r.lo, r.hi>>)
            ELSE Fail("(nn) can only be loaded into A")
      [] OTHER -> Fail("invalid LD src: " \o r.str)

\* LD_Z80RI emitting the opcode of LD R,A
LD_Z80RI_AsR(l, r) ==
    IF r.str = "A" THEN Emit(<<237, 79>>) ELSE Fail("can only load A into I")

\* LD I,A
LD_Z80RI(l, r) ==
    IF r.str = "A" THEN Emit(<<237, 71>>) ELSE Fail("can only load A into I")

\* LD R,A
LD_Z80RR(l, r) ==
    IF r.str = "A" THEN Emit(<<237, 79>>) ELSE Fail("can only A into R")

\* LD HL/BC/DE/SP/IX/IY,...
LD_Z80R16(l, r) ==
    IF l.str \in {"HL", "IX", "IY"}
    THEN IF r.kind = "Number"
         THEN IF (l.str = "IX") \/ (l.str = "IY")
              THEN Emit(<<l.prefix, 33, r.lo, r.hi>>)
              ELSE Emit(<<33, r.lo, r.hi>>)
         ELSE IF r.kind = "Z80IndImm"
         THEN IF (l.str = "IX") \/ (l.str = "IY")
              THEN Emit(<<l.prefix, 42, r.lo, r.hi>>)
              ELSE Emit(<<42, r.lo, r.hi>>)
         ELSE Fail("invalid src in LD " \o l.str \o "," \o r.str)
    ELSE IF l.str \in {"BC", "DE", "SP"}
    THEN IF r.kind = "Number"
         THEN Emit(<<BitOr(1, Shl(z80R16bits(l.str), 4)), r.lo, r.hi>>)
         ELSE IF r.kind = "Z80IndImm"
         THEN Emit(<<237, BitOr(75, Shl(z80R16bits(l.str), 4)), r.lo, r.hi>>)
         ELSE IF r.kind = "Z80R16"
         THEN IF l.str = "SP"
              THEN IF r.str = "HL" THEN Emit(<<249>>)
                   ELSE IF (r.str = "IX") \/ (r.str = "IY") THEN Emit(<<r.prefix, 249>>)
                   ELSE Fail("invalid src in LD " \o l.str \o "," \o r.str)
              ELSE Fail("invalid dst in LD " \o l.str \o "," \o r.str)
         ELSE Fail("invalid src in LD " \o l.str \o "," \o r.str)
    ELSE Fail("invalid dst in LD " \o l.str \o ",...")

\* LD (HL/BC/DE),...
LD_Z80IndR16(l, r) ==
    IF l.str = "HL"
    THEN IF r.kind = "Number" THEN expect_8bit(r, <<54, r.lo>>)
         ELSE IF r.kind = "Z80R8" THEN Emit(<<BitOr(112, z80R8bits(r.str))>>)
         ELSE Fail("invalid src in LD (HL)," \o r.str)
    ELSE IF (l.str = "BC") \/ (l.str = "DE")
    THEN IF (r.kind = "Z80R8") /\ (r.str = "A")
         THEN Emit(<<IF l.str = "BC" THEN 2 ELSE 18>>)
         ELSE Fail("can only load A into (" \o l.str \o ")")
    ELSE Fail("invalid dst in LD (" \o l.str \o ")," \o r.str)

\* LD (IX/IY+d),r or LD (IX/IY+d),n
LD_Z80IndIdx(l, r) ==
    IF r.kind = "Number" THEN expect_8bit(r, <<l.prefix, 54, l.lo, r.lo>>)
    ELSE IF r.kind = "Z80R8" THEN Emit(<<l.prefix, BitOr(112, z80R8bits(r.str)), l.lo>>)
    ELSE Fail("invalid src in LD (" \o l.str \o "+d)," \o r.str)

\* LD (nn),...
LD_Z80IndImm(l, r) ==
    IF (r.kind = "Z80R8") /\ (r.str = "A") THEN Emit(<<50, l.lo, l.hi>>)
    ELSE IF r.kind = "Z80R16"
    THEN IF r.str = "HL" THEN Emit(<<34, l.lo, l.hi>>)
         ELSE IF r.str \in {"IX", "IY"} THEN Emit(<<r.prefix, 34, l.lo, l.hi>>)
         ELSE IF r.str \in {"BC", "DE", "SP"}
         THEN Emit(<<237, BitOr(67, Shl(z80R16bits(r.str), 4)), l.lo, l.hi>>)
         ELSE Fail("invalid src in LD (nn)," \o r.str)
    ELSE Untouched

asmZ80LD(l, c, r) ==
    IF c.kind # "Comma" THEN Fail("comma expected")
    ELSE CASE l.kind = "Z80R8"     -> LD_Z80R8(l, r)
           [] l.kind = "Z80RI"     -> LD_Z80RI(l, r)
           [] l.kind = "Z80RR"     -> LD_Z80RR(l, r)
           [] l.kind = "Z80R16"    -> LD_Z80R16(l, r)
           [] l.kind = "Z80IndR16" -> LD_Z80IndR16(l, r)
           [] l.kind = "Z80IndIdx" -> LD_Z80IndIdx(l, r)
           [] l.kind = "Z80IndImm" -> LD_Z80IndImm(l, r)
           [] OTHER                -> Fail("invalid LD dst: " \o l.str)

\* asmZ80Op: the effect on outp and the number of operand items consumed
asmZ80Op(inp, its, idx) ==
    IF SimpleOpBytes(inp.str) # <<>>
    THEN [eff |-> Emit(SimpleOpBytes(inp.str)), used |-> 0]
    ELSE IF inp.str = "LD"
    THEN [eff |-> asmZ80LD(Assembler_peek_item(its, idx), Assembler_peek_item(its, idx + 1),
                           Assembler_peek_item(its, idx + 2)),
          used |-> 3]
    ELSE IF inp.str \in ALUNames
    THEN [eff |-> asmZ80ALU(inp.str, Assembler_peek_item(its, idx)), used |-> 1]
    ELSE [eff |-> Fail("FIXME: Z80 OP " \o inp.str), used |-> 0]

-----------------------------------------------------------------------------
(* Assembler: the main loop *)

NewByteRange ==
    [addr |-> 0, bytes |-> <<>>, bytesSet |-> FALSE, line |-> 0, label |-> Null,
     ready |-> FALSE, discard |-> FALSE]

\* ApplyEffect with error() recording the message without setting outp.discard
ApplyEffect_NoDiscard(o, eff) ==
    [o EXCEPT !.bytes = IF eff.set THEN eff.bytes ELSE @,
              !.bytesSet = @ \/ eff.set]

\* outp after the statement's effect: bytes assigned, discard set by error()
ApplyEffect(o, eff) ==
    [o EXCEPT !.bytes = IF eff.set THEN eff.bytes ELSE @,
              !.bytesSet = @ \/ eff.set,
              !.discard = @ \/ (eff.errs # <<>>)]

\* AdvanceAddr counting statements instead of bytes
AdvanceAddr_ByOne(a, rng) == a + 1

\* this.addr += outp.bytes.length
AdvanceAddr(a, rng) == a + Len(rng.bytes)

\* one iteration of the loop of Assembler.Assemble on an item other than EOF
Assembler_iteration(its, idx0, a, c, outp0) ==
    LET inp == Assembler_peek_item(its, idx0)
        idx == idx0 + 1
        o1  == [outp0 EXCEPT !.line = inp.line, !.addr = a]
        op  == asmZ80Op(inp, its, idx)
        \* the branch taken: outp, addr, cpu, index and error messages behind it
        b == IF inp.kind = "Keyword"
             THEN IF inp.str = "ORG"
                  THEN [o |-> [o1 EXCEPT !.discard = TRUE], errs |-> <<>>, fatal |-> FALSE,
                        addr |-> Assembler_peek_item(its, idx).num, cpu |-> c, idx |-> idx + 1]
                  ELSE IF inp.str = "Z80"
                  THEN [o |-> [o1 EXCEPT !.discard = TRUE], errs |-> <<>>, fatal |-> FALSE,
                        addr |-> a, cpu |-> "Z80", idx |-> idx]
                  ELSE IF inp.str = "M6502"
                  THEN [o |-> [o1 EXCEPT !.discard = TRUE], errs |-> <<>>, fatal |-> FALSE,
                        addr |-> a, cpu |-> "M6502", idx |-> idx]
                  ELSE IF inp.str \in {"INCLUDE", "INCBIN", "DB", "DW", "CONST",
                                       "MACRO", "ENDM", "END"}
                  THEN [o |-> [o1 EXCEPT !.discard = TRUE],
                        errs |-> <<inp.str \o ": NOT IMPLEMENTED YET!">>, fatal |-> FALSE,
                        addr |-> a, cpu |-> c, idx |-> idx]
                  ELSE [o |-> o1, errs |-> <<>>, fatal |-> FALSE,
                        addr |-> a, cpu |-> c, idx |-> idx]
             ELSE IF inp.kind = "Label"
             THEN [o |-> [o1 EXCEPT !.label = inp.str], errs |-> <<>>, fatal |-> FALSE,
                   addr |-> a, cpu |-> c, idx |-> idx]
             ELSE IF inp.kind = "Z80Op"
             THEN [o |-> ApplyEffect([o1 EXCEPT !.ready = TRUE], op.eff),
                   errs |-> op.eff.errs, fatal |-> op.eff.fatal,
                   addr |-> a, cpu |-> c, idx |-> idx + op.used]
             ELSE [o |-> [o1 EXCEPT !.discard = TRUE],
                   errs |-> <<"Syntax error: " \o inp.str>>, fatal |-> FALSE,
                   addr |-> a, cpu |-> c, idx |-> idx]
        accepted == ~b.fatal /\ ~b.o.discard /\ b.o.ready
    IN  [outp   |-> IF b.fatal THEN b.o
                    ELSE IF b.o.discard THEN NewByteRange
                    ELSE IF b.o.ready THEN (IF b.o.bytesSet THEN NewByteRange ELSE b.o)
                    ELSE b.o,
         pushed |-> IF accepted THEN <<b.o>> ELSE <<>>,
         \* fatal() threw, or outp.bytes.length was read with outp.bytes undefined
         thrown |-> b.fatal \/ (accepted /\ ~b.o.bytesSet),
         addr   |-> IF accepted /\ b.o.bytesSet THEN AdvanceAddr(b.addr, b.o) ELSE b.addr,
         cpu    |-> b.cpu,
         idx    |-> b.idx,
         errs   |-> [i \in DOMAIN b.errs |-> NewError(b.errs[i], b.o.line)]]

-----------------------------------------------------------------------------
(* Bundler *)

\* a store into a Uint8Array keeps the low eight bits
ToUint8(b) == b % 256

\* BundleRaw copying the ranges last to first
RECURSIVE BundleRaw_Reversed(_)
BundleRaw_Reversed(ranges) ==
    IF ranges = <<>> THEN <<>>
    ELSE BundleRaw_Reversed(Tail(ranges))
         \o [i \in DOMAIN Head(ranges).bytes |-> ToUint8(Head(ranges).bytes[i])]

RECURSIVE BundleRaw(_)
BundleRaw(ranges) ==
    IF ranges = <<>> THEN <<>>
    ELSE [i \in DOMAIN Head(ranges).bytes |-> ToUint8(Head(ranges).bytes[i])]
         \o BundleRaw(Tail(ranges))

-----------------------------------------------------------------------------
(* HCAsm.AsmRaw as a state machine *)

NoResult == [kind |-> "none", bytes |-> <<>>]
ReturnNull == [kind |-> "null", bytes |-> <<>>]
ReturnBytes(bs) == [kind |-> "bytes", bytes |-> bs]
Exception == [kind |-> "exception", bytes |-> <<>>]

\* the state at the first call of next_token in Tokenizer.Tokenize(s) of
\* HCAsm.AsmRaw(s), all four objects freshly constructed
InitWith(s) ==
    /\ src = s
    /\ pos = 0
    /\ line = 0
    /\ tokens = <<>>
    /\ tokenIndex = 0
    /\ items = <<>>
    /\ perrors = <<>>
    /\ syntaxItemIndex = 0
    /\ addr = 0
    /\ cpu = "None"
    /\ outp = NewByteRange
    /\ byteRanges = <<>>
    /\ aerrors = <<>>
    /\ pc = "tokenize"
    /\ result = NoResult
    /\ calls = <<>>

\* Tokenize: next_token returned a token
TokenizeStep ==
    /\ pc = "tokenize"
    /\ UNCHANGED calls
    /\ LET t == Tokenizer_next_token(src, pos, line)
       IN  /\ t.has
           /\ tokens' = Append(tokens, t.tok)
           /\ pos' = t.pos
           /\ line' = t.line
    /\ UNCHANGED <<src, tokenIndex, items, perrors, syntaxItemIndex, addr, cpu, outp,
                   byteRanges, aerrors, pc, result>>

\* Tokenize: next_token returned null; AsmRaw goes on to Parser.Parse
TokenizeEnd ==
    /\ pc = "tokenize"
    /\ UNCHANGED calls
    /\ LET t == Tokenizer_next_token(src, pos, line)
       IN  /\ ~t.has
           /\ pos' = t.pos
           /\ line' = t.line
    /\ tokenIndex' = 0
    /\ items' = <<>>
    /\ perrors' = <<>>
    /\ pc' = "parse"
    /\ UNCHANGED <<src, tokens, syntaxItemIndex, addr, cpu, outp, byteRanges, aerrors, result>>

\* Parse: one iteration of the loop
ParseStep ==
    /\ pc = "parse"
    /\ UNCHANGED calls
    /\ Parser_peek_token(tokens, tokenIndex).kind # "EOF"
    /\ LET r == Parser_iteration(tokens, tokenIndex)
       IN  /\ tokenIndex' = r.idx
           /\ perrors' = perrors \o r.errs
           /\ items' = IF ~r.item.discard THEN Append(items, r.item) ELSE items
    /\ UNCHANGED <<src, pos, line, tokens, syntaxItemIndex, addr, cpu, outp, byteRanges,
                   aerrors, pc, result>>

\* Parse: the EOF token ends the loop; AsmRaw returns null on parser errors
\* and calls Assembler.Assemble otherwise
ParseEnd ==
    /\ pc = "parse"
    /\ UNCHANGED calls
    /\ Parser_peek_token(tokens, tokenIndex).kind = "EOF"
    /\ tokenIndex' = tokenIndex + 1
    /\ IF perrors # <<>>
       THEN /\ pc' = "done"
            /\ result' = ReturnNull
            /\ UNCHANGED <<syntaxItemIndex, byteRanges, aerrors, outp>>
       ELSE /\ pc' = "assemble"
            /\ syntaxItemIndex' = 0
            /\ byteRanges' = <<>>
            /\ aerrors' = <<>>
            /\ outp' = NewByteRange
            /\ UNCHANGED result
    /\ UNCHANGED <<src, pos, line, tokens, items, perrors, addr, cpu>>

\* Assemble: one iteration of the loop; an exception leaves Assemble and AsmRaw
AssembleStep ==
    /\ pc = "assemble"
    /\ UNCHANGED calls
    /\ Assembler_peek_item(items, syntaxItemIndex).kind # "EOF"
    /\ LET r == Assembler_iteration(items, syntaxItemIndex, addr, cpu, outp)
       IN  /\ syntaxItemIndex' = r.idx
           /\ addr' = r.addr
           /\ cpu' = r.cpu
           /\ outp' = r.outp
           /\ byteRanges' = byteRanges \o r.pushed
           /\ aerrors' = aerrors \o r.errs
           /\ pc' = IF r.thrown THEN "thrown" ELSE "assemble"
           /\ result' = IF r.thrown THEN Exception ELSE result
    /\ UNCHANGED <<src, pos, line, tokens, tokenIndex, items, perrors>>

\* Assemble: the EOF item ends the loop; AsmRaw returns null on assembler errors
AssembleEnd ==
    /\ pc = "assemble"
    /\ UNCHANGED calls
    /\ Assembler_peek_item(items, syntaxItemIndex).kind = "EOF"
    /\ syntaxItemIndex' = syntaxItemIndex + 1
    /\ IF aerrors # <<>>
       THEN pc' = "done" /\ result' = ReturnNull
       ELSE pc' = "bundle" /\ UNCHANGED result
    /\ UNCHANGED <<src, pos, line, tokens, tokenIndex, items, perrors, addr, cpu, outp,
                   byteRanges, aerrors>>

\* AsmRaw returns the image built by Bundler.BundleRaw
Bundle ==
    /\ pc = "bundle"
    /\ UNCHANGED calls
    /\ result' = ReturnBytes(BundleRaw(byteRanges))
    /\ pc' = "done"
    /\ UNCHANGED <<src, pos, line, tokens, tokenIndex, items, perrors, syntaxItemIndex,
                   addr, cpu, outp, byteRanges, aerrors>>

Next ==
    \/ TokenizeStep
    \/ TokenizeEnd
    \/ ParseStep
    \/ ParseEnd
    \/ AssembleStep
    \/ AssembleEnd
    \/ Bundle

-----------------------------------------------------------------------------
(* Source texts *)

\* the characters of a word of the source language; a one-letter word is its
\* own character
Spell(w) ==
    CASE w = "LD" -> <<"L", "D">>
      [] w = "ORG" -> <<"O", "R", "G">>
      [] w = "Z80" -> <<"Z", "8", "0">>
      [] w = "M6502" -> <<"M", "6", "5", "0", "2">>
      [] w = "DB" -> <<"D", "B">>
      [] w = "DW" -> <<"D", "W">>
      [] w = "INCLUDE" -> <<"I", "N", "C", "L", "U", "D", "E">>
      [] w = "INCBIN" -> <<"I", "N", "C", "B", "I", "N">>
      [] w = "CONST" -> <<"C", "O", "N", "S", "T">>
      [] w = "MACRO" -> <<"M", "A", "C", "R", "O">>
      [] w = "ENDM" -> <<"E", "N", "D", "M">>
      [] w = "END" -> <<"E", "N", "D">>
      [] w = "BC" -> <<"B", "C">>
      [] w = "DE" -> <<"D", "E">>
      [] w = "HL" -> <<"H", "L">>
      [] w = "SP" -> <<"S", "P">>
      [] w = "AF" -> <<"A", "F">>
      [] w = "IX" -> <<"I", "X">>
      [] w = "IY" -> <<"I", "Y">>
      [] w = "(HL)" -> <<"(", "H", "L", ")">>
      [] w = "(BC)" -> <<"(", "B", "C", ")">>
      [] w = "(DE)" -> <<"(", "D", "E", ")">>
      [] w = "(SP)" -> <<"(", "S", "P", ")">>
      [] w = "(C)" -> <<"(", "C", ")">>
      [] w = "NOP" -> <<"N", "O", "P">>
      [] w = "EXX" -> <<"E", "X", "X">>
      [] w = "DAA" -> <<"D", "A", "A">>
      [] w = "CPL" -> <<"C", "P", "L">>
      [] w = "NEG" -> <<"N", "E", "G">>
      [] w = "CCF" -> <<"C", "C", "F">>
      [] w = "SCF" -> <<"S", "C", "F">>
      [] w = "HALT" -> <<"H", "A", "L", "T">>
      [] w = "DI" -> <<"D", "I">>
      [] w = "EI" -> <<"E", "I">>
      [] w = "LDI" -> <<"L", "D", "I">>
      [] w = "LDIR" -> <<"L", "D", "I", "R">>
      [] w = "LDD" -> <<"L", "D", "D">>
      [] w = "LDDR" -> <<"L", "D", "D", "R">>
      [] w = "CPI" -> <<"C", "P", "I">>
      [] w = "CPIR" -> <<"C", "P", "I", "R">>
      [] w = "CPD" -> <<"C", "P", "D">>
      [] w = "CPDR" -> <<"C", "P", "D", "R">>
      [] w = "INI" -> <<"I", "N", "I">>
      [] w = "INIR" -> <<"I", "N", "I", "R">>
      [] w = "IND" -> <<"I", "N", "D">>
      [] w = "INDR" -> <<"I", "N", "D", "R">>
      [] w = "OUTI" -> <<"O", "U", "T", "I">>
      [] w = "OTIR" -> <<"O", "T", "I", "R">>
      [] w = "OUTD" -> <<"O", "U", "T", "D">>
      [] w = "OTDR" -> <<"O", "T", "D", "R">>
      [] w = "RET" -> <<"R", "E", "T">>
      [] w = "RETI" -> <<"R", "E", "T", "I">>
      [] w = "RETN" -> <<"R", "E", "T", "N">>
      [] w = "RLCA" -> <<"R", "L", "C", "A">>
      [] w = "RLA" -> <<"R", "L", "A">>
      [] w = "RRCA" -> <<"R", "R", "C", "A">>
      [] w = "RRA" -> <<"R", "R", "A">>
      [] w = "RLD" -> <<"R", "L", "D">>
      [] w = "RRD" -> <<"R", "R", "D">>
      [] w = "ADD" -> <<"A", "D", "D">>
      [] w = "ADC" -> <<"A", "D", "C">>
      [] w = "SUB" -> <<"S", "U", "B">>
      [] w = "SBC" -> <<"S", "B", "C">>
      [] w = "AND" -> <<"A", "N", "D">>
      [] w = "XOR" -> <<"X", "O", "R">>
      [] w = "OR" -> <<"O", "R">>
      [] w = "CP" -> <<"C", "P">>
      [] OTHER -> <<w>>

RECURSIVE DecDigitsOf(_)
DecDigitsOf(n) ==
    IF n < 10 THEN <<DecDigits[n + 1]>>
    ELSE DecDigitsOf(n \div 10) \o <<DecDigits[(n % 10) + 1]>>

RECURSIVE HexDigitsOf(_)
HexDigitsOf(n) ==
    IF n < 16 THEN <<HexDigitsUpper[n + 1]>>
    ELSE HexDigitsOf(n \div 16) \o <<HexDigitsUpper[(n % 16) + 1]>>

\* a natural number written as a decimal and as a `$` hexadecimal literal
DecText(n) == DecDigitsOf(n)
HexText(n) == <<"$">> \o HexDigitsOf(n)

\* (nn), with the address in decimal or hexadecimal
IndDecText(n) == <<"(">> \o DecText(n) \o <<")">>
IndHexText(n) == <<"(">> \o HexText(n) \o <<")">>

\* (X+d) or (X-k) for a signed displacement d, in decimal
IdxText(x, d) ==
    <<"(">> \o Spell(x) \o (IF d < 0 THEN <<"-">> \o DecText(0 - d) ELSE <<"+">> \o DecText(d))
            \o <<")">>

\* (X+$hh)
IdxHexText(x, d) == <<"(">> \o Spell(x) \o <<"+">> \o HexText(d) \o <<")">>

\* the statements `LD l,r` and `OP x`
LDText(l, r) == <<"L", "D", " ">> \o l \o <<",">> \o r
OpText(op, x) == Spell(op) \o <<" ">> \o x

\* statements, one per line
RECURSIVE Lines(_)
Lines(stmts) ==
    IF stmts = <<>> THEN <<>>
    ELSE IF Len(stmts) = 1 THEN Head(stmts)
    ELSE Head(stmts) \o <<"\n">> \o Lines(Tail(stmts))

R8 == {"B", "C", "D", "E", "H", "L", "A"}
R16 == {"BC", "DE", "HL", "SP", "AF", "IX", "IY"}
IndR16 == {"(HL)", "(BC)", "(DE)", "(SP)"}
Index == {"IX", "IY"}

\* the values sampled for immediates, addresses and displacements: both
\* sides of the 8-bit and 16-bit limits
ImmValues == {0, 18, 255, 256, 4096, 65535, 65536, 70000}
HexImmValues == {18, 255, 256, 4660, 65535}
AddrValues == {0, 4096, 65535}
BadAddrValues == {65536, 65537}
DispValues == {-129, -128, -3, -1, 0, 3, 127, 255, 256}
HexDispValues == {254, 255}

NumberTexts ==
    {DecText(n) : n \in ImmValues} \cup {HexText(n) : n \in HexImmValues}
        \cup {<<"%", "1", "0", "1">>}

IndImmTexts ==
    {IndHexText(n) : n \in AddrValues} \cup {IndDecText(n) : n \in AddrValues \cup BadAddrValues}

IdxTexts ==
    {IdxText(x, d) : x \in Index, d \in DispValues}
        \cup {IdxHexText(x, d) : x \in Index, d \in HexDispValues}

RegisterTexts == {Spell(w) : w \in R8 \cup {"I", "R"} \cup R16 \cup IndR16 \cup {"(C)"}}

\* an undefined name and a string literal
OtherTexts == {<<"Q">>, <<"\"", "A", "\"">>}

OperandTexts == RegisterTexts \cup NumberTexts \cup IndImmTexts \cup IdxTexts \cup OtherTexts

NoOperandOps ==
    {"NOP", "EXX", "DAA", "CPL", "NEG", "CCF", "SCF", "HALT", "DI", "EI",
     "LDI", "LDIR", "LDD", "LDDR", "CPI", "CPIR", "CPD", "CPDR",
     "INI", "INIR", "IND", "INDR", "OUTI", "OTIR", "OUTD", "OTDR",
     "RET", "RETI", "RETN", "RLCA", "RLA", "RRCA", "RRA", "RLD", "RRD"}

\* one LD statement over every pair of operands
LDSources == {LDText(l, r) : l \in OperandTexts, r \in OperandTexts}

\* one ALU statement over every operand
ALUSources == {OpText(op, x) : op \in ALUNames, x \in OperandTexts}

\* one operand-less instruction
OpSources == {Spell(op) : op \in NoOperandOps}

\* programs of up to MaxStmts statements
MaxStmts == 3

SeqStmts ==
    {Spell("NOP"), Spell("LDIR"),
     LDText(Spell("A"), HexText(18)), LDText(Spell("HL"), HexText(4096)),
     LDText(IdxText("IX", 0), Spell("A")),
     OpText("ORG", HexText(512)), OpText("ORG", DecText(16)),
     <<"L", "1", ":">>,
     LDText(Spell("Q"), Spell("A")), LDText(IndHexText(4096), Spell("B")),
     Spell("DB"), <<"(", "1">>}

SeqSources ==
    UNION {{Lines(p) : p \in [1..n -> SeqStmts]} : n \in 0..MaxStmts}

InitLD == \E s \in LDSources : InitWith(s)
InitALU == \E s \in ALUSources : InitWith(s)
InitOp == \E s \in OpSources : InitWith(s)
Init == \E s \in SeqSources : InitWith(s)

Spec == Init /\ [][Next]_vars
SpecLD == InitLD /\ [][Next]_vars
SpecALU == InitALU /\ [][Next]_vars
SpecOp == InitOp /\ [][Next]_vars

-----------------------------------------------------------------------------
(* The encodings the specification prescribes, and the literals of the       *)
(* sources with the numbers they denote                                      *)

Finished == pc \in {"done", "thrown"}

\* the run assembled the whole source without error into exactly these bytes
Assembled(bs) ==
    /\ pc = "done"
    /\ perrors = <<>>
    /\ aerrors = <<>>
    /\ result = ReturnBytes(bs)

\* the run recorded an encoding error, emitted no byte range and returned null
EncodingError ==
    /\ pc = "done"
    /\ perrors = <<>>
    /\ aerrors # <<>>
    /\ byteRanges = <<>>
    /\ result = ReturnNull

RegCode(x) ==
    CASE x = "B" -> 0 [] x = "C" -> 1 [] x = "D" -> 2 [] x = "E" -> 3
      [] x = "H" -> 4 [] x = "L" -> 5 [] x = "(HL)" -> 6 [] x = "A" -> 7

PairCode(x) == CASE x = "BC" -> 0 [] x = "DE" -> 1 [] x = "HL" -> 2 [] x = "SP" -> 3

AluCode(x) ==
    CASE x = "ADD" -> 0 [] x = "ADC" -> 1 [] x = "SUB" -> 2 [] x = "SBC" -> 3
      [] x = "AND" -> 4 [] x = "XOR" -> 5 [] x = "OR" -> 6 [] x = "CP" -> 7

PrefixOf(x) == IF x = "IX" THEN 221 ELSE 253

\* <<text, value>> of every number literal of the sources
ImmLits ==
    {<<DecText(n), n>> : n \in ImmValues} \cup {<<HexText(n), n>> : n \in HexImmValues}
        \cup {<< <<"%", "1", "0", "1">>, 5 >>}

\* <<text, address>> of every (nn) operand with nn in 0..65535
AddrLits ==
    {<<IndHexText(n), n>> : n \in AddrValues} \cup {<<IndDecText(n), n>> : n \in AddrValues}

\* <<index register, text, displacement>> of every (X+d) operand
DispLits ==
    {<<x, IdxText(x, d), d>> : x \in Index, d \in DispValues}
        \cup {<<x, IdxHexText(x, d), d>> : x \in Index, d \in HexDispValues}

\* the displacements the parser accepts
AcceptedDispLits == {t \in DispLits : t[3] >= -128 /\ t[3] <= 255}

-----------------------------------------------------------------------------
\* C2: for x, y in {B,C,D,E,H,L,A,(HL)} not both (HL), `LD x,y` assembles
\* without error to the single byte 0x40 | code(x)<<3 | code(y); `LD (HL),(HL)`
\* is an encoding error, so no such LD emits 0x76.
C2_LD_r_r ==
    \A x, y \in R8 \cup {"(HL)"} :
        (Finished /\ src = LDText(Spell(x), Spell(y))) =>
            /\ IF x = "(HL)" /\ y = "(HL)"
               THEN EncodingError
               ELSE Assembled(<<64 + 8 * RegCode(x) + RegCode(y)>>)
            /\ result.bytes # <<118>>

C2_Witness ==
    /\ pc = "done"
    /\ src = LDText(Spell("(HL)"), Spell("A"))
    /\ result = ReturnBytes(<<119>>)

\* C3: `LD r,n` assembles to [0x06 | code(r)<<3, n] and `LD (HL),n` to
\* [0x36, n] for n in 0..255; for n > 255 the statement records the error
\* "8-bit overflow" and emits no byte range.
C3_LD_r_n ==
    \A x \in R8 \cup {"(HL)"} : \A t \in ImmLits :
        (Finished /\ src = LDText(Spell(x), t[1])) =>
            IF t[2] <= 255
            THEN Assembled(<<6 + 8 * RegCode(x), t[2]>>)
            ELSE EncodingError /\ aerrors = <<NewError("8-bit overflow", 0)>>

C3_Witness ==
    /\ pc = "done"
    /\ src = LDText(Spell("(HL)"), DecText(256))
    /\ aerrors = <<NewError("8-bit overflow", 0)>>
    /\ byteRanges = <<>>

\* C4: for X in {IX,IY}, every accepted displacement d, every register r and
\* every n in 0..255: `LD (X+d),r` = [P, 0x70|code(r), d mod 256],
\* `LD (X+d),n` = [P, 0x36, d mod 256, n], `LD r,(X+d)` =
\* [P, 0x46|code(r)<<3, d mod 256]; a negative displacement -k is emitted as
\* 256-k.
C4_LD_indexed ==
    \A t \in AcceptedDispLits :
        LET P == PrefixOf(t[1])
            d == IF t[3] < 0 THEN 256 + t[3] ELSE t[3] % 256
        IN  /\ \A r \in R8 :
                /\ (Finished /\ src = LDText(t[2], Spell(r))) =>
                        Assembled(<<P, 112 + RegCode(r), d>>)
                /\ (Finished /\ src = LDText(Spell(r), t[2])) =>
                        Assembled(<<P, 70 + 8 * RegCode(r), d>>)
            /\ \A n \in {m \in ImmLits : m[2] <= 255} :
                (Finished /\ src = LDText(t[2], n[1])) => Assembled(<<P, 54, d, n[2]>>)

C4_Witness ==
    /\ pc = "done"
    /\ src = LDText(IdxText("IX", -1), Spell("D"))
    /\ result = ReturnBytes(<<221, 114, 255>>)

\* C5: the accumulator-only loads assemble without error to their fixed
\* encodings.
C5_LD_A_only ==
    /\ (Finished /\ src = LDText(Spell("A"), Spell("(BC)"))) => Assembled(<<10>>)
    /\ (Finished /\ src = LDText(Spell("A"), Spell("(DE)"))) => Assembled(<<26>>)
    /\ (Finished /\ src = LDText(Spell("(BC)"), Spell("A"))) => Assembled(<<2>>)
    /\ (Finished /\ src = LDText(Spell("(DE)"), Spell("A"))) => Assembled(<<18>>)
    /\ \A t \in AddrLits :
        /\ (Finished /\ src = LDText(Spell("A"), t[1])) =>
                Assembled(<<58, t[2] % 256, t[2] \div 256>>)
        /\ (Finished /\ src = LDText(t[1], Spell("A"))) =>
                Assembled(<<50, t[2] % 256, t[2] \div 256>>)
    /\ (Finished /\ src = LDText(Spell("I"), Spell("A"))) => Assembled(<<237, 71>>)
    /\ (Finished /\ src = LDText(Spell("R"), Spell("A"))) => Assembled(<<237, 79>>)
    /\ (Finished /\ src = LDText(Spell("A"), Spell("I"))) => Assembled(<<237, 87>>)
    /\ (Finished /\ src = LDText(Spell("A"), Spell("R"))) => Assembled(<<237, 95>>)

C5_Witness ==
    /\ pc = "done"
    /\ src = LDText(IndHexText(65535), Spell("A"))
    /\ result = ReturnBytes(<<50, 255, 255>>)

\* C6: in every accumulator-only position of LD an 8-bit register other than
\* A makes Assemble record an encoding error, emit no byte range and go on
\* without aborting.
C6_A_only_enforced ==
    \A x \in R8 \ {"A"} :
        /\ \A m \in {Spell("(BC)"), Spell("(DE)"), Spell("I"), Spell("R")}
                    \cup {t[1] : t \in AddrLits} :
            /\ (Finished /\ src = LDText(Spell(x), m)) => EncodingError
            /\ (Finished /\ src = LDText(m, Spell(x))) => EncodingError

\* <<text, value>> of every number literal with a value in 0..65535
Imm16Lits == {t \in ImmLits : t[2] <= 65535}

\* C7: the 16-bit loads assemble to their encodings for nn in 0..65535
\* (lo = nn mod 256, hi = nn div 256, pair codes BC=0, DE=1, SP=3), and
\* every other 16-bit register combination is an encoding error.
C7_LD_16bit ==
    /\ \A t \in Imm16Lits :
        LET lo == t[2] % 256
            hi == t[2] \div 256
        IN  /\ \A dd \in {"BC", "DE", "SP"} :
                (Finished /\ src = LDText(Spell(dd), t[1])) =>
                    Assembled(<<1 + 16 * PairCode(dd), lo, hi>>)
            /\ (Finished /\ src = LDText(Spell("HL"), t[1])) => Assembled(<<33, lo, hi>>)
            /\ \A x \in Index :
                (Finished /\ src = LDText(Spell(x), t[1])) =>
                    Assembled(<<PrefixOf(x), 33, lo, hi>>)
            /\ (Finished /\ src = LDText(Spell("AF"), t[1])) => EncodingError
    /\ \A t \in AddrLits :
        LET lo == t[2] % 256
            hi == t[2] \div 256
        IN  /\ \A dd \in {"BC", "DE", "SP"} :
                /\ (Finished /\ src = LDText(Spell(dd), t[1])) =>
                        Assembled(<<237, 75 + 16 * PairCode(dd), lo, hi>>)
                /\ (Finished /\ src = LDText(t[1], Spell(dd))) =>
                        Assembled(<<237, 67 + 16 * PairCode(dd), lo, hi>>)
            /\ (Finished /\ src = LDText(Spell("HL"), t[1])) => Assembled(<<42, lo, hi>>)
            /\ (Finished /\ src = LDText(t[1], Spell("HL"))) => Assembled(<<34, lo, hi>>)
            /\ \A x \in Index :
                /\ (Finished /\ src = LDText(Spell(x), t[1])) =>
                        Assembled(<<PrefixOf(x), 42, lo, hi>>)
                /\ (Finished /\ src = LDText(t[1], Spell(x))) =>
                        Assembled(<<PrefixOf(x), 34, lo, hi>>)
            /\ (Finished /\ src = LDText(Spell("AF"), t[1])) => EncodingError
            /\ (Finished /\ src = LDText(t[1], Spell("AF"))) => EncodingError
    /\ (Finished /\ src = LDText(Spell("SP"), Spell("HL"))) => Assembled(<<249>>)
    /\ \A x \in Index :
        (Finished /\ src = LDText(Spell("SP"), Spell(x))) => Assembled(<<PrefixOf(x), 249>>)
    /\ \A l, r \in R16 :
        (~(l = "SP" /\ r \in {"HL", "IX", "IY"})
            /\ Finished /\ src = LDText(Spell(l), Spell(r))) => EncodingError

C7_Witness ==
    /\ pc = "done"
    /\ src = LDText(Spell("SP"), IndHexText(4096))
    /\ result = ReturnBytes(<<237, 123, 0, 16>>)

-----------------------------------------------------------------------------
\* C8: for every ALU mnemonic with code o: `ALU r` = [0x80|o<<3|code(r)],
\* `ALU n` = [0xC6|o<<3, n], `ALU (HL)` = [0x86|o<<3], `ALU (IX/IY+d)` =
\* [prefix, 0x86|o<<3, d mod 256]; an indirect operand through another
\* register, a 16-bit register operand or n > 255 is an encoding error with
\* no bytes emitted.
C8_ALU ==
    \A op \in ALUNames :
        LET o == AluCode(op)
        IN  /\ \A r \in R8 :
                (Finished /\ src = OpText(op, Spell(r))) =>
                    Assembled(<<128 + 8 * o + RegCode(r)>>)
            /\ \A t \in ImmLits :
                (Finished /\ src = OpText(op, t[1])) =>
                    IF t[2] <= 255 THEN Assembled(<<198 + 8 * o, t[2]>>) ELSE EncodingError
            /\ (Finished /\ src = OpText(op, Spell("(HL)"))) => Assembled(<<134 + 8 * o>>)
            /\ \A t \in AcceptedDispLits :
                (Finished /\ src = OpText(op, t[2])) =>
                    Assembled(<<PrefixOf(t[1]), 134 + 8 * o,
                                IF t[3] < 0 THEN 256 + t[3] ELSE t[3] % 256>>)
            /\ \A x \in (IndR16 \ {"(HL)"}) \cup R16 :
                (Finished /\ src = OpText(op, Spell(x))) => EncodingError

C8_Witness ==
    /\ pc = "done"
    /\ src = OpText("CP", IdxText("IY", -3))
    /\ result = ReturnBytes(<<253, 190, 253>>)

-----------------------------------------------------------------------------
\* C9: every operand-less mnemonic of the list, written alone as a
\* statement, goes through tokenizer, parser and assembler without any error
\* and yields its fixed one-byte or ED-prefixed two-byte sequence
\* (NOP=00, HALT=76, RLCA=07, RRA=1F, RETI=ED 4D, LDIR=ED B0).
C9_NoOperandOps ==
    /\ \A op \in NoOperandOps :
        (Finished /\ src = Spell(op)) =>
            /\ pc = "done"
            /\ perrors = <<>>
            /\ aerrors = <<>>
            /\ result.kind = "bytes"
            /\ \/ Len(result.bytes) = 1
               \/ Len(result.bytes) = 2 /\ result.bytes[1] = 237
    /\ (Finished /\ src = Spell("NOP")) => result.bytes = <<0>>
    /\ (Finished /\ src = Spell("HALT")) => result.bytes = <<118>>
    /\ (Finished /\ src = Spell("RLCA")) => result.bytes = <<7>>
    /\ (Finished /\ src = Spell("RRA")) => result.bytes = <<31>>
    /\ (Finished /\ src = Spell("RETI")) => result.bytes = <<237, 77>>
    /\ (Finished /\ src = Spell("LDIR")) => result.bytes = <<237, 176>>

-----------------------------------------------------------------------------
(* Address bookkeeping.  In the programs of SeqSources every statement has a *)
(* line of its own, so the line of an item or byte range tells its statement. *)

\* the indices of the ORG items on a line before ln
OrgsBefore(ln) ==
    {k \in DOMAIN items : items[k].kind = "Keyword" /\ items[k].str = "ORG"
                          /\ items[k].line < ln}

MaxOf(S) == CHOOSE m \in S : \A k \in S : k <= m

\* the line of the most recent ORG before line ln, -1 if there is none
RegionLine(ln) ==
    IF OrgsBefore(ln) = {} THEN -1 ELSE items[MaxOf(OrgsBefore(ln))].line

\* the operand of that ORG, 0 if there is none
RegionBase(ln) ==
    IF OrgsBefore(ln) = {} THEN 0
    ELSE Assembler_peek_item(items, MaxOf(OrgsBefore(ln))).num

\* the sum of the lengths of the ranges before the i-th emitted after line ln
RECURSIVE LengthsSince(_, _)
LengthsSince(i, ln) ==
    IF i <= 1 THEN 0
    ELSE LengthsSince(i - 1, ln)
         + (IF byteRanges[i - 1].line > ln THEN Len(byteRanges[i - 1].bytes) ELSE 0)

\* C10: every emitted ByteRange has addr equal to the operand of the most
\* recent preceding ORG (0 if there is none) plus the sum of the lengths of
\* the ranges emitted since that ORG; addresses strictly increase within one
\* ORG region; `ORG $200` followed by a one-byte instruction places it at
\* 0x0200.
C10_Addresses ==
    /\ \A i \in DOMAIN byteRanges :
        byteRanges[i].addr =
            RegionBase(byteRanges[i].line)
                + LengthsSince(i, RegionLine(byteRanges[i].line))
    /\ \A i, j \in DOMAIN byteRanges :
        (i < j /\ RegionLine(byteRanges[i].line) = RegionLine(byteRanges[j].line)) =>
            byteRanges[i].addr < byteRanges[j].addr
    /\ (Finished /\ src = Lines(<<OpText("ORG", HexText(512)), Spell("NOP")>>)) =>
            /\ Len(byteRanges) = 1
            /\ byteRanges[1].addr = 512
            /\ byteRanges[1].bytes = <<0>>

C10_Witness ==
    /\ pc = "done"
    /\ src = Lines(<<LDText(Spell("HL"), HexText(4096)), OpText("ORG", HexText(512)),
                     Spell("LDIR")>>)
    /\ Len(byteRanges) = 2
    /\ byteRanges[1].addr = 0
    /\ byteRanges[2].addr = 512
    /\ addr = 514

-----------------------------------------------------------------------------
\* C1: HCAsm.AsmRaw(src) returns null whenever the Parser or the Assembler
\* recorded at least one error for src, and returns the bundled bytes only
\* when both error lists are empty.
C1_NullOnError ==
    Finished =>
        /\ (perrors # <<>> \/ aerrors # <<>>) => result = ReturnNull
        /\ result.kind = "bytes" => (perrors = <<>> /\ aerrors = <<>>)


-----------------------------------------------------------------------------
\* C11: a statement for which Assemble records an error appends nothing to
\* byteRanges and leaves the address counter unchanged, and every ByteRange
\* emitted by an earlier statement stays in byteRanges with its address and
\* bytes unchanged.
C11_ErrorFrame ==
    [][pc = "assemble" =>
          /\ (aerrors' # aerrors) => (byteRanges' = byteRanges /\ addr' = addr)
          /\ \A i \in DOMAIN byteRanges :
                /\ i \in DOMAIN byteRanges'
                /\ byteRanges'[i] = byteRanges[i]]_vars

C11_Witness ==
    /\ pc = "done"
    /\ src = Lines(<<Spell("NOP"), LDText(Spell("Q"), Spell("A")), Spell("LDIR")>>)
    /\ aerrors = <<NewError("invalid LD dst: Q", 1)>>
    /\ Len(byteRanges) = 2
    /\ byteRanges[1].addr = 0 /\ byteRanges[1].bytes = <<0>>
    /\ byteRanges[2].addr = 1 /\ byteRanges[2].bytes = <<237, 176>>
    /\ addr = 3


-----------------------------------------------------------------------------
(* Programs with statements that lack a comma or an operand *)

ValidStmts == {Spell("NOP"), Spell("LDIR"), LDText(Spell("A"), Spell("B"))}

\* `LD A B`, `LD A`, `LD A,`, `LD Q,A`, `DB`
ErroneousStmts ==
    {<<"L", "D", " ", "A", " ", "B">>, <<"L", "D", " ", "A">>, <<"L", "D", " ", "A", ",">>,
     LDText(Spell("Q"), Spell("A")), Spell("DB")}

RecoverPrograms ==
    UNION {[1..n -> ValidStmts \cup ErroneousStmts] : n \in 1..MaxStmts}

InitRecover == \E p \in RecoverPrograms : InitWith(Lines(p))

SpecRecover == InitRecover /\ [][Next]_vars

\* C12: after a statement raises an encoding error, encoding continues with
\* the next statement: only the items of the offending statement are
\* discarded, so every valid statement that follows an erroneous one (a NOP
\* after an LD with a missing comma or a missing operand) still produces its
\* byte range.
C12_ContinueAfterError ==
    \A p \in RecoverPrograms :
        (Finished /\ src = Lines(p)) =>
            /\ pc = "done"
            /\ \A k \in DOMAIN p :
                (p[k] \in ValidStmts /\ \E j \in 1..(k - 1) : p[j] \in ErroneousStmts) =>
                    \E i \in DOMAIN byteRanges : byteRanges[i].line = k - 1


-----------------------------------------------------------------------------
\* the Parser recorded the displacement error for the statement, kept no
\* indexed operand item, and AsmRaw returned null
DisplacementRejected ==
    /\ pc = "done"
    /\ perrors = <<NewError("d in (IX/IY+d) must be an 8-bit value", 0)>>
    /\ \A k \in DOMAIN items : items[k].kind # "Z80IndIdx"
    /\ result = ReturnNull

\* C13 as stated: the displacement of an indexed operand must lie in the
\* signed 8-bit range -128..127; for every displacement outside that range
\* the Parser records an error and discards the operand item.
C13_SignedDisplacement ==
    \A t \in {u \in DispLits : u[3] < -128 \/ u[3] > 127} :
        /\ (Finished /\ src = LDText(t[2], Spell("A"))) => DisplacementRejected
        /\ (Finished /\ src = LDText(Spell("A"), t[2])) => DisplacementRejected

\* C13 amended: the displacement of an indexed operand must lie in -128..255;
\* for every displacement outside that range the Parser records an error and
\* discards the operand item.
C13_Displacement8bit ==
    \A t \in {u \in DispLits : u[3] < -128 \/ u[3] > 255} :
        /\ (Finished /\ src = LDText(t[2], Spell("A"))) => DisplacementRejected
        /\ (Finished /\ src = LDText(Spell("A"), t[2])) => DisplacementRejected

C13_Witness ==
    /\ src = LDText(Spell("A"), IdxText("IY", -129))
    /\ DisplacementRejected
    /\ Len(items) = 3


-----------------------------------------------------------------------------
\* C14: for every rp in {BC,DE,HL,SP,IX,IY} and every nn > 65535, `LD rp,nn`
\* records an encoding error and emits no bytes.
C14_LD_rp_nn_overflow ==
    \A rp \in {"BC", "DE", "HL", "SP", "IX", "IY"} :
        \A t \in {u \in ImmLits : u[2] > 65535} :
            (Finished /\ src = LDText(Spell(rp), t[1])) => EncodingError


-----------------------------------------------------------------------------
\* C15: an indirect-immediate operand `(n)` passes the Parser only when n is
\* in 0..65535: for every other n the Parser records a "16-bit integer
\* overflow" error and discards the item, so no IndirectImmediate item ever
\* carries a value above 0xFFFF.
C15_IndImm16bit ==
    /\ \A k \in DOMAIN items :
        items[k].kind = "Z80IndImm" => (items[k].num >= 0 /\ items[k].num <= 65535)
    /\ \A n \in BadAddrValues :
        /\ (Finished /\ src = LDText(Spell("A"), IndDecText(n))) =>
                /\ pc = "done"
                /\ perrors = <<NewError("16-bit integer overflow!", 0)>>
                /\ result = ReturnNull
        /\ (Finished /\ src = LDText(IndDecText(n), Spell("A"))) =>
                /\ pc = "done"
                /\ perrors = <<NewError("16-bit integer overflow!", 0)>>
                /\ result = ReturnNull


-----------------------------------------------------------------------------
\* C16: for every Number item that the Parser classifies as fitting 16 bits
\* (is16bit = true), value = hi*256 + lo holds for the low and high bytes
\* computed at item creation.
C16_HiLo ==
    \A k \in DOMAIN items :
        (items[k].kind = "Number" /\ items[k].is16bit) =>
            items[k].num = items[k].hi * 256 + items[k].lo


-----------------------------------------------------------------------------
(* Programs that assemble at the top of the 16-bit address space *)

WrapStmts ==
    {OpText("ORG", HexText(65535)), OpText("ORG", HexText(65534)), OpText("ORG", DecText(0)),
     Spell("NOP"), Spell("LDIR"), LDText(Spell("HL"), HexText(4096)),
     LDText(IdxText("IX", 0), DecText(1))}

WrapPrograms == UNION {[1..n -> WrapStmts] : n \in 1..MaxStmts}

InitWrap == \E p \in WrapPrograms : InitWith(Lines(p))

SpecWrap == InitWrap /\ [][Next]_vars

\* C17: the address counter is a 16-bit value that wraps modulo 65536: after
\* any sequence of ORG directives and emitted instructions, the counter and
\* the addr of every emitted ByteRange lie in 0..65535.
C17_AddrWraps ==
    /\ addr >= 0 /\ addr <= 65535
    /\ \A i \in DOMAIN byteRanges :
        byteRanges[i].addr >= 0 /\ byteRanges[i].addr <= 65535


-----------------------------------------------------------------------------
(* Programs of directives *)

CpuDirectives == {"Z80", "M6502"}
UnimplementedDirectives == {"INCLUDE", "INCBIN", "DB", "DW", "CONST", "MACRO", "ENDM", "END"}

DirStmts ==
    {OpText("ORG", HexText(512))} \cup {Spell(w) : w \in CpuDirectives \cup UnimplementedDirectives}

\* a directive alone, between two instructions, and every pair of directives
DirPrograms ==
    {<<d>> : d \in DirStmts}
        \cup {<<Spell("NOP"), d, Spell("LDIR")>> : d \in DirStmts}
        \cup {<<d, e>> : d, e \in DirStmts}

InitDir == \E p \in DirPrograms : InitWith(Lines(p))

SpecDir == InitDir /\ [][Next]_vars

\* the item Assemble is about to fetch
CurrentItem == items[syntaxItemIndex + 1]

\* every step of Assemble on a directive: no byte range; ORG n sets the
\* counter to n, Z80/M6502 set the CPU mode, both without error; the others
\* record "NOT IMPLEMENTED" and leave the counter alone
DirectiveStep ==
    (pc = "assemble" /\ syntaxItemIndex < Len(items) /\ CurrentItem.kind = "Keyword") =>
        /\ byteRanges' = byteRanges
        /\ pc' = "assemble"
        /\ CurrentItem.str = "ORG" =>
                /\ aerrors' = aerrors
                /\ addr' = items[syntaxItemIndex + 2].num
                /\ cpu' = cpu
        /\ CurrentItem.str \in CpuDirectives =>
                /\ aerrors' = aerrors
                /\ addr' = addr
                /\ cpu' = CurrentItem.str
        /\ CurrentItem.str \in UnimplementedDirectives =>
                /\ aerrors' = Append(aerrors, NewError(CurrentItem.str \o ": NOT IMPLEMENTED YET!",
                                                       CurrentItem.line))
                /\ addr' = addr
                /\ cpu' = cpu

\* the outcome of the programs `d` and `NOP / d / LDIR` for each directive d
DirectiveOutcome ==
    /\ (Finished /\ src = OpText("ORG", HexText(512))) =>
            /\ Assembled(<<>>) /\ byteRanges = <<>> /\ addr = 512
    /\ (Finished /\ src = Lines(<<Spell("NOP"), OpText("ORG", HexText(512)), Spell("LDIR")>>)) =>
            /\ Assembled(<<0, 237, 176>>)
            /\ Len(byteRanges) = 2 /\ byteRanges[2].addr = 512 /\ addr = 514
    /\ \A w \in CpuDirectives :
        /\ (Finished /\ src = Spell(w)) =>
                /\ Assembled(<<>>) /\ byteRanges = <<>> /\ addr = 0 /\ cpu = w
        /\ (Finished /\ src = Lines(<<Spell("NOP"), Spell(w), Spell("LDIR")>>)) =>
                /\ Assembled(<<0, 237, 176>>)
                /\ Len(byteRanges) = 2 /\ byteRanges[2].addr = 1 /\ addr = 3 /\ cpu = w
    /\ \A w \in UnimplementedDirectives :
        /\ (Finished /\ src = Spell(w)) =>
                /\ pc = "done" /\ perrors = <<>> /\ result = ReturnNull
                /\ aerrors = <<NewError(w \o ": NOT IMPLEMENTED YET!", 0)>>
                /\ byteRanges = <<>> /\ addr = 0
        /\ (Finished /\ src = Lines(<<Spell("NOP"), Spell(w), Spell("LDIR")>>)) =>
                /\ pc = "done" /\ perrors = <<>> /\ result = ReturnNull
                /\ aerrors = <<NewError(w \o ": NOT IMPLEMENTED YET!", 1)>>
                /\ Len(byteRanges) = 2 /\ byteRanges[2].addr = 1 /\ addr = 3

\* C18: directives never emit bytes: `ORG n`, `Z80` and `M6502` produce no
\* ByteRange and no error (ORG sets the address counter to n, Z80/M6502 set
\* the CPU mode), and each of INCLUDE, INCBIN, DB, DW, CONST, MACRO, ENDM, END
\* produces no ByteRange, leaves the address counter unchanged and records a
\* "NOT IMPLEMENTED" error.
C18_Directives == []DirectiveOutcome /\ [][DirectiveStep]_vars

C18_Witness ==
    /\ pc = "done"
    /\ src = Lines(<<Spell("NOP"), Spell("ENDM"), Spell("LDIR")>>)
    /\ aerrors = <<NewError("ENDM: NOT IMPLEMENTED YET!", 1)>>
    /\ Len(byteRanges) = 2
    /\ addr = 3


-----------------------------------------------------------------------------
(* Regions and images *)

\* the sum of the lengths of the first n byte ranges
RECURSIVE LengthOfFirst(_)
LengthOfFirst(n) ==
    IF n = 0 THEN 0 ELSE LengthOfFirst(n - 1) + Len(byteRanges[n].bytes)

\* all byte ranges lie behind the same ORG directive (or behind none)
SingleRegion ==
    \A i, j \in DOMAIN byteRanges :
        RegionLine(byteRanges[i].line) = RegionLine(byteRanges[j].line)

\* range i holds a byte for address a
Covers(i, a) ==
    /\ byteRanges[i].addr <= a
    /\ a < byteRanges[i].addr + Len(byteRanges[i].bytes)

\* C19: for byte ranges of a single ORG region, BundleRaw returns an image
\* whose length is the sum of the range lengths and whose byte at offset k is
\* the byte that the range covering address base+k holds for that address,
\* where base is the address of the first range; the ranges appear in
\* statement order.
C19_BundleOneRegion ==
    (pc = "done" /\ result.kind = "bytes" /\ byteRanges # <<>> /\ SingleRegion) =>
        LET base == byteRanges[1].addr
        IN  /\ Len(result.bytes) = LengthOfFirst(Len(byteRanges))
            /\ \A k \in 0..(Len(result.bytes) - 1) :
                /\ \E i \in DOMAIN byteRanges : Covers(i, base + k)
                /\ \A i \in DOMAIN byteRanges :
                    Covers(i, base + k) =>
                        result.bytes[k + 1] =
                            byteRanges[i].bytes[base + k - byteRanges[i].addr + 1]
            /\ \A i, j \in DOMAIN byteRanges :
                i < j => byteRanges[i].line < byteRanges[j].line

C19_Witness ==
    /\ pc = "done"
    /\ src = Lines(<<OpText("ORG", HexText(512)), LDText(Spell("HL"), HexText(4096)),
                     Spell("LDIR")>>)
    /\ SingleRegion
    /\ Len(byteRanges) = 2
    /\ byteRanges[1].addr = 512
    /\ byteRanges[2].addr = 515
    /\ result = ReturnBytes(<<33, 0, 16, 237, 176>>)


-----------------------------------------------------------------------------
\* the returned image holds the bytes of range i directly behind those of
\* the ranges before it
PlacedBehind(i) ==
    /\ Len(result.bytes) >= LengthOfFirst(i)
    /\ SubSeq(result.bytes, LengthOfFirst(i - 1) + 1, LengthOfFirst(i)) = byteRanges[i].bytes

\* C20: when the source contains several ORG directives, bundling yields one
\* (base, bytes) region per ORG region and the regions are disjoint: bytes
\* assembled after a later ORG are not placed in the same image directly
\* behind the bytes of an earlier region as if their addresses were
\* contiguous.
C20_DisjointRegions ==
    (pc = "done" /\ result.kind = "bytes") =>
        \A i \in 2..Len(byteRanges) :
            (/\ RegionLine(byteRanges[i].line) # RegionLine(byteRanges[i - 1].line)
             /\ byteRanges[i].addr # byteRanges[i - 1].addr + Len(byteRanges[i - 1].bytes)) =>
                ~PlacedBehind(i)


-----------------------------------------------------------------------------
(* Programs with malformed or unusual operands: lone literal prefixes,      *)
(* characters that start no token, brackets around every kind of token, an  *)
(* unterminated string, a string over two lines, a comment                   *)

OddTexts ==
    {<<"@">>, <<"$">>, <<"%">>, <<"\"">>, <<";">>, <<";", "c">>,
     <<"(", "@", ")">>, <<"(", "$", ")">>, <<"(", "%", ")">>,
     <<"(", "I", "X", ")">>, <<"(", "I", "Y", ")">>, <<"(", "Q", ")">>,
     <<"(", ",", ")">>, <<"(", "+", ")">>, <<"(", "-", ")">>, <<"(", ")">>, <<"(">>,
     <<"(", "1", ")">>, <<"(", "H", "L", ")">>,
     <<"\"", "A", "\n", "B", "\"">>,
     <<"A">>, <<"B">>, <<"1">>, <<"L", "1", ":">>, <<"N", "O", "P">>, <<>>}

\* an operand text at statement start, as either operand of LD, as the
\* operand of ADD and of ORG, behind `LD ($1000),`, and each followed by a
\* NOP on the next line
OddContexts(x) ==
    {x,
     LDText(Spell("A"), x),
     LDText(x, Spell("A")),
     LDText(IndHexText(4096), x),
     OpText("ADD", x),
     OpText("ORG", x),
     Lines(<<x, Spell("NOP")>>),
     Lines(<<LDText(Spell("A"), x), Spell("NOP")>>),
     Lines(<<OpText("ORG", x), Spell("NOP")>>),
     Lines(<<Spell("NOP"), OpText("ORG", HexText(512)), OpText("ORG", x), Spell("NOP")>>)}

OddSources == UNION {OddContexts(x) : x \in OddTexts}

InitOdd == \E s \in OddSources : InitWith(s)

SpecOdd == InitOdd /\ [][Next]_vars

-----------------------------------------------------------------------------
(* C26: an index register in brackets without displacement *)

\* the Parser stands before the three tokens ( IX ) or ( IY )
AtBareIndex ==
    /\ pc = "parse"
    /\ Parser_peek_token(tokens, tokenIndex).kind = "LeftBracket"
    /\ Parser_peek_token(tokens, tokenIndex + 1).kind = "Name"
    /\ Parser_peek_token(tokens, tokenIndex + 1).str \in {"IX", "IY"}
    /\ Parser_peek_token(tokens, tokenIndex + 2).kind = "RightBracket"

\* C26: the iteration of the Parser that meets `(IX)` or `(IY)` pushes one
\* item of kind Z80IndR16 over that register, records no error and consumes
\* exactly the three tokens, so that the token behind the closing bracket is
\* parsed by the next iteration.
C26_BareIndex ==
    [][AtBareIndex =>
          /\ perrors' = perrors
          /\ Len(items') = Len(items) + 1
          /\ items'[Len(items')].kind = "Z80IndR16"
          /\ items'[Len(items')].str = Parser_peek_token(tokens, tokenIndex + 1).str
          /\ tokenIndex' = tokenIndex + 3]_vars

-----------------------------------------------------------------------------
(* C27: a malformed indirection *)

IndirectionNames == {"HL", "BC", "DE", "SP", "C", "IX", "IY"}

\* the Parser stands before an opening bracket that is followed neither by
\* a Number nor by one of the indirection registers
AtBadIndirection ==
    /\ pc = "parse"
    /\ Parser_peek_token(tokens, tokenIndex).kind = "LeftBracket"
    /\ Parser_peek_token(tokens, tokenIndex + 1).kind # "Number"
    /\ ~ /\ Parser_peek_token(tokens, tokenIndex + 1).kind = "Name"
         /\ Parser_peek_token(tokens, tokenIndex + 1).str \in IndirectionNames

\* C27: the iteration of the Parser that meets such a bracket records an
\* "expected indirection register" error and pushes no item, it moves on in
\* the token stream, and no item of kind Invalid is ever in Parser.items.
C27_BadIndirection ==
    /\ [](\A i \in DOMAIN items : items[i].kind # "Invalid")
    /\ [][AtBadIndirection =>
             /\ items' = items
             /\ \E i \in DOMAIN perrors' :
                    /\ i > Len(perrors)
                    /\ perrors'[i].msg = "expected indirection register"
             /\ tokenIndex' > tokenIndex]_vars

-----------------------------------------------------------------------------
(* C23: lexical errors *)

\* the token stream holds an Unknown or an Error token
LexicalError == \E i \in DOMAIN tokens : tokens[i].kind \in {"Unknown", "Error"}

\* C23: when AsmRaw returns for a source with an Unknown or Error token, an
\* error was recorded by the Parser or the Assembler and the result is null.
C23_LexicalErrorSurfaces ==
    (pc = "done" /\ LexicalError) =>
        /\ perrors # <<>> \/ aerrors # <<>>
        /\ result = ReturnNull

-----------------------------------------------------------------------------
(* C25: labels *)

\* the byte ranges emitted for statements on lines behind line ln
RangesBehind(ln) == {k \in DOMAIN byteRanges : byteRanges[k].line > ln}

\* C25: once Assemble has returned, the byte range that immediately follows
\* a Label item (the first range of a later line) carries that label, whatever
\* stands between the two.
C25_LabelBound ==
    (pc \in {"bundle", "done"} /\ perrors = <<>>) =>
        \A i \in DOMAIN items :
            (items[i].kind = "Label" /\ RangesBehind(items[i].line) # {}) =>
                LET k == CHOOSE k \in RangesBehind(items[i].line) :
                             \A j \in RangesBehind(items[i].line) : k <= j
                IN  byteRanges[k].label = items[i].str

-----------------------------------------------------------------------------
(* C29: ORG without a number *)

\* Assemble stands before an ORG that is not followed by a Number item
AtBadOrg ==
    /\ pc = "assemble"
    /\ Assembler_peek_item(items, syntaxItemIndex).kind = "Keyword"
    /\ Assembler_peek_item(items, syntaxItemIndex).str = "ORG"
    /\ Assembler_peek_item(items, syntaxItemIndex + 1).kind # "Number"

\* C29: the iteration of Assemble on such an ORG records an error, leaves
\* the address counter as it was and consumes the ORG item alone.
C29_OrgNeedsNumber ==
    [][AtBadOrg =>
          /\ Len(aerrors') > Len(aerrors)
          /\ addr' = addr
          /\ syntaxItemIndex' = syntaxItemIndex + 1]_vars

-----------------------------------------------------------------------------
(* C30: the byte ranges Assemble appends *)

\* a byte range as the encoder is meant to hand it over
WellFormedRange(r) ==
    /\ r.bytesSet
    /\ Len(r.bytes) \in 1..4
    /\ \A k \in DOMAIN r.bytes : r.bytes[k] \in 0..255
    /\ r.ready
    /\ ~r.discard

\* C30: every byte range in Assembler.byteRanges has a defined list of 1 to 4
\* bytes in 0..255, is ready and is not discarded.
C30_RangesWellFormed ==
    \A i \in DOMAIN byteRanges : WellFormedRange(byteRanges[i])

-----------------------------------------------------------------------------
(* C28: line numbers *)

\* the position of the first character of the token that begins at or behind
\* position p: blanks, line breaks and comments are no part of a token
RECURSIVE TokenStart(_, _)
TokenStart(s, p) ==
    LET c == cur_char(s, p)
    IN  IF c = "\n" \/ isWhiteSpace(c) THEN TokenStart(s, p + 1)
        ELSE IF c = ";" THEN TokenStart(s, SkipComment(s, p + 1))
        ELSE p

\* the number of newline characters among the first p characters of s
NewlinesBefore(s, p) == Cardinality({k \in 1..p : s[k] = "\n"})

\* C28: the line of every token the Tokenizer appends is the number of
\* newline characters that precede the token's first character.
C28_TokenLine ==
    [][(pc = "tokenize" /\ Len(tokens') > Len(tokens)) =>
          tokens'[Len(tokens')].line = NewlinesBefore(src, TokenStart(src, pos))]_vars

-----------------------------------------------------------------------------
(* C21: termination *)

\* every call of next_token that yields a token moves pos forward, and the
\* Tokenizer stops only with the whole text consumed
TokenizerProgress ==
    pc = "tokenize" => IF pc' = "tokenize" THEN pos' > pos ELSE pos' >= Len(src)

\* every iteration of Parser.Parse moves tokenIndex forward, and the loop is
\* left only at the end of the token stream
ParserProgress ==
    pc = "parse" => IF pc' = "parse" THEN tokenIndex' > tokenIndex
                    ELSE tokenIndex >= Len(tokens)

\* every iteration of Assembler.Assemble moves syntaxItemIndex forward, and
\* the loop is left only at the end of the item stream
AssemblerProgress ==
    pc = "assemble" => IF pc' = "assemble" THEN syntaxItemIndex' > syntaxItemIndex
                       ELSE syntaxItemIndex >= Len(items)

\* C21: every iteration of the three loops consumes at least one character,
\* token or item, and each loop is left through its end-of-input exit.
C21_Terminates ==
    [][TokenizerProgress /\ ParserProgress /\ AssemblerProgress]_vars

-----------------------------------------------------------------------------
(* Repeated calls on one Tokenizer                                           *)

\* the number of calls a caller makes on one object
MaxCalls == 3

\* texts of several lines, with a comment, a string over a line break and
\* literals without digits
CallTexts ==
    {Lines(<<Spell("NOP"), LDText(Spell("A"), HexText(18))>>),
     <<"\"", "A", "\n", "B", "\"", "\n", "N", "O", "P">>,
     <<";", "c", "\n", "$", " ", "@">>,
     <<"%", "1", "0", "\n", "\n", "(", "I", "X", "+", "2", ")">>}

\* Tokenize: next_token returned null and Tokenize returns its token array
\* to a caller other than AsmRaw, who keeps the Tokenizer
TokenizeReturn ==
    /\ pc = "tokenize"
    /\ LET t == Tokenizer_next_token(src, pos, line)
       IN  /\ ~t.has
           /\ pos' = t.pos
           /\ line' = t.line
    /\ calls' = Append(calls, [fn |-> "Tokenize", arg |-> src, ret |-> tokens])
    /\ pc' = "returned"
    /\ UNCHANGED <<src, tokens, tokenIndex, items, perrors, syntaxItemIndex, addr, cpu,
                   outp, byteRanges, aerrors, result>>

\* TokenizeCall with the assignment this.line = 0 left out
TokenizeCall_KeepLine ==
    /\ pc = "returned"
    /\ calls[Len(calls)].fn = "Tokenize"
    /\ Len(calls) < MaxCalls
    /\ \E s \in CallTexts : src' = s
    /\ pos' = 0
    /\ tokens' = <<>>
    /\ pc' = "tokenize"
    /\ UNCHANGED <<line, tokenIndex, items, perrors, syntaxItemIndex, addr, cpu, outp,
                   byteRanges, aerrors, result, calls>>

\* the caller calls Tokenize(s) again on the same Tokenizer: the assignments
\* at the head of Tokenize, up to the first call of next_token
TokenizeCall ==
    /\ pc = "returned"
    /\ calls[Len(calls)].fn = "Tokenize"
    /\ Len(calls) < MaxCalls
    /\ \E s \in CallTexts : src' = s
    /\ pos' = 0
    /\ line' = 0
    /\ tokens' = <<>>
    /\ pc' = "tokenize"
    /\ UNCHANGED <<tokenIndex, items, perrors, syntaxItemIndex, addr, cpu, outp,
                   byteRanges, aerrors, result, calls>>

NextTokenizer ==
    \/ TokenizeStep
    \/ TokenizeReturn
    \/ TokenizeCall

InitTokenizer == \E s \in CallTexts : InitWith(s)

SpecTokenizer == InitTokenizer /\ [][NextTokenizer]_vars

\* C22: two calls of Tokenize with the same text return the same tokens
\* (kind, text, number and line of each), whatever was tokenized before.
C22_TokenizePure ==
    \A i, j \in DOMAIN calls :
        (calls[i].fn = "Tokenize" /\ calls[j].fn = "Tokenize" /\ calls[i].arg = calls[j].arg)
            => calls[i].ret = calls[j].ret

\* a text with tokens on a later line was tokenized, then another text, then
\* the first one again
C22_Witness ==
    \E i, j, k \in DOMAIN calls :
        /\ i < j /\ j < k
        /\ calls[i].arg = calls[k].arg
        /\ calls[j].arg # calls[i].arg
        /\ \E n \in DOMAIN calls[k].ret : calls[k].ret[n].line > 0

-----------------------------------------------------------------------------
(* Repeated calls on one Assembler                                           *)

\* sources whose items are assembled MaxCalls times by the same Assembler
CallSources ==
    {Spell("NOP"),
     Lines(<<LDText(Spell("A"), HexText(18)), Spell("LDIR")>>),
     Lines(<<OpText("ORG", HexText(512)), Spell("NOP")>>),
     Lines(<<Spell("NOP"), OpText("ORG", HexText(512)), Spell("NOP")>>),
     Lines(<<<<"L", "1", ":">>, Spell("NOP")>>),
     Lines(<<Spell("Z80"), Spell("NOP")>>),
     Lines(<<Spell("NOP"), Spell("DB")>>),
     Spell("M6502")}

\* Assemble: the EOF item ends the loop and Assemble returns byteRanges to
\* a caller other than AsmRaw, who keeps the Assembler and reads its errors
AssembleReturn ==
    /\ pc = "assemble"
    /\ Assembler_peek_item(items, syntaxItemIndex).kind = "EOF"
    /\ syntaxItemIndex' = syntaxItemIndex + 1
    /\ calls' = Append(calls, [fn |-> "Assemble", arg |-> items,
                               ret |-> [byteRanges |-> byteRanges, errors |-> aerrors]])
    /\ pc' = "returned"
    /\ UNCHANGED <<src, pos, line, tokens, tokenIndex, items, perrors, addr, cpu, outp,
                   byteRanges, aerrors, result>>

\* the caller calls Assemble again with the same items on the same
\* Assembler: the assignments at the head of Assemble; addr and cpu are
\* fields that Assemble does not assign there
AssembleCall ==
    /\ pc = "returned"
    /\ calls[Len(calls)].fn = "Assemble"
    /\ Len(calls) < MaxCalls
    /\ syntaxItemIndex' = 0
    /\ byteRanges' = <<>>
    /\ aerrors' = <<>>
    /\ outp' = NewByteRange
    /\ pc' = "assemble"
    /\ UNCHANGED <<src, pos, line, tokens, tokenIndex, items, perrors, addr, cpu,
                   result, calls>>

NextAssembler ==
    \/ TokenizeStep
    \/ TokenizeEnd
    \/ ParseStep
    \/ ParseEnd
    \/ AssembleStep
    \/ AssembleReturn
    \/ AssembleCall

InitAssembler == \E s \in CallSources : InitWith(s)

SpecAssembler == InitAssembler /\ [][NextAssembler]_vars

\* C24: every call of Assemble starts from address 0 and the initial CPU
\* mode, and two calls with the same items return the same byte ranges
\* (addresses included) and the same errors.
C24_AssembleFresh ==
    /\ (pc = "assemble" /\ syntaxItemIndex = 0) => (addr = 0 /\ cpu = "None")
    /\ \A i, j \in DOMAIN calls :
           (calls[i].fn = "Assemble" /\ calls[j].fn = "Assemble"
                /\ calls[i].arg = calls[j].arg)
               => calls[i].ret = calls[j].ret

=============================================================================
